---- MODULE Spec2Model ----
(***************************************************************************)
(* A model of panoply's guise style engine: the expression-typed           *)
(* ElementStyle (element_style.rs), the legacy StyleAttr (style/           *)
(* style_attr.rs), the Controller's cascade (controller.rs) and the        *)
(* attribute-string grammars.                                              *)
(*                                                                         *)
(* Values.  Every resolved value is a tuple of strings, so that any two    *)
(* values can be compared: a colour is <<"Some", c>> or <<"None">>, a Val  *)
(* is <<variant, number>> (<<"Auto", "">> for Val::Auto), an enumeration   *)
(* is <<variant>>, a grid placement is <<start, span, end>>.  An Expr is   *)
(* [kind, v] with v a tuple of strings.                                    *)
(***************************************************************************)
EXTENDS Integers, Sequences, FiniteSets, TLC

VARIABLES
    scope,      \* the property family the styles of this run are written in
    style,      \* the ElementStyle last built by from_ast (its attrs vector)
    computed,   \* the ComputedStyle being merged into
    call,       \* the operation last called, with its arguments
    ret,        \* what that operation returned
    loads,      \* the paths from_ast asked its LoadContext to load
    assets      \* Assets<StyleAsset>: handle -> stylesheet, or NotLoaded

vars == <<scope, style, computed, call, ret, loads, assets>>

(***************************************************************************)
(* Bounds of the model.                                                    *)
(***************************************************************************)
MaxMembers == 2     \* properties in one structured-document mapping
MaxAttrs == 2       \* attributes in one legacy StyleAsset
MaxSheets == 2      \* stylesheet handles listed by one view
MaxSheetAttrs == 1  \* attributes in one stylesheet of the controller runs
MaxNum == 3         \* characters in the numeric part of a length string
MaxTokens == 5      \* tokens in one rect string

(***************************************************************************)
(* Expr, the dynamic style value.                                          *)
(***************************************************************************)
Null == [kind |-> "Null", v |-> <<>>]
Ident(s) == [kind |-> "Ident", v |-> <<s>>]
Number(n) == [kind |-> "Number", v |-> <<n>>]
ColorExpr(c) == [kind |-> "Color", v |-> <<c>>]
Length(n, u) == [kind |-> "Length", v |-> <<n, u>>]
\* four lengths in CSS order: top, right, bottom, left
Rect(tn, tu, rn, ru, bn, bu, ln, lu) ==
    [kind |-> "Rect", v |-> <<tn, tu, rn, ru, bn, bu, ln, lu>>]
AssetPath(p) == [kind |-> "AssetPath", v |-> <<p>>]
EmptyList == [kind |-> "List", v |-> <<>>]

\* what the cascade reads of a handle, and of a resolved literal
HandleOf(p) == [kind |-> "Handle", v |-> <<p>>]
NoHandle == [kind |-> "NoHandle", v |-> <<>>]
Lit(v) == [kind |-> "Lit", v |-> v]

Attr(tag, expr) == [tag |-> tag, expr |-> expr]

(***************************************************************************)
(* Expr conversions / TypedExpr<T>::eval.  A conversion answers            *)
(* [ok |-> TRUE, v |-> value] when the tag fits the target type and        *)
(* NoValue otherwise; it never fails the style.                            *)
(***************************************************************************)
NoValue == [ok |-> FALSE, v |-> <<>>]
Value(v) == [ok |-> TRUE, v |-> v]

\* a length's unit suffix to the layout engine's Val variant
UnitVal(n, u) ==
    CASE u = "px" -> Value(<<"Px", n>>)
      [] u = "%" -> Value(<<"Percent", n>>)
      [] u = "vw" -> Value(<<"Vw", n>>)
      [] u = "vh" -> Value(<<"Vh", n>>)
      [] u = "vmin" -> Value(<<"VMin", n>>)
      [] u = "vmax" -> Value(<<"VMax", n>>)
      [] OTHER -> NoValue

IntoColor(e) == IF e.kind = "Color" THEN Value(<<"Some", e.v[1]>>) ELSE NoValue

IntoI32(e) == IF e.kind = "Number" THEN Value(<<e.v[1]>>) ELSE NoValue

IntoF32(e) == IF e.kind = "Number" THEN Value(<<e.v[1]>>) ELSE NoValue

\* a bare number is a length in pixels; auto is a keyword
IntoLength(e) ==
    CASE e.kind = "Length" -> UnitVal(e.v[1], e.v[2])
      [] e.kind = "Number" -> Value(<<"Px", e.v[1]>>)
      [] e.kind = "Ident" /\ e.v[1] = "auto" -> Value(<<"Auto", "">>)
      [] OTHER -> NoValue

\* a rect answers four Vals; v holds them as left, right, top, bottom
IntoUiRect(e) ==
    IF e.kind = "Rect"
       /\ UnitVal(e.v[1], e.v[2]).ok /\ UnitVal(e.v[3], e.v[4]).ok
       /\ UnitVal(e.v[5], e.v[6]).ok /\ UnitVal(e.v[7], e.v[8]).ok
    THEN [ok |-> TRUE,
          left |-> UnitVal(e.v[7], e.v[8]).v, right |-> UnitVal(e.v[3], e.v[4]).v,
          top |-> UnitVal(e.v[1], e.v[2]).v, bottom |-> UnitVal(e.v[5], e.v[6]).v]
    ELSE [ok |-> FALSE, left |-> <<>>, right |-> <<>>, top |-> <<>>, bottom |-> <<>>]

(***************************************************************************)
(* The vocabulary of every enumerated property: literal :> variant.        *)
(***************************************************************************)
PositionTypeWords == ("absolute" :> "Absolute") @@ ("relative" :> "Relative")

OverflowAxisWords == ("clip" :> "Clip") @@ ("visible" :> "Visible")

DirectionWords ==
    ("inherit" :> "Inherit") @@ ("ltr" :> "LeftToRight") @@ ("rtl" :> "RightToLeft")

AlignItemsWords ==
    ("default" :> "Default") @@ ("start" :> "Start") @@ ("end" :> "End")
    @@ ("flex-start" :> "FlexStart") @@ ("flex-end" :> "FlexEnd")
    @@ ("center" :> "Center") @@ ("baseline" :> "Baseline") @@ ("stretch" :> "Stretch")

JustifyItemsWords ==
    ("default" :> "Default") @@ ("start" :> "Start") @@ ("end" :> "End")
    @@ ("center" :> "Center") @@ ("baseline" :> "Baseline") @@ ("stretch" :> "Stretch")

AlignSelfWords ==
    ("auto" :> "Auto") @@ ("start" :> "Start") @@ ("end" :> "End")
    @@ ("flex-start" :> "FlexStart") @@ ("flex-end" :> "FlexEnd")
    @@ ("center" :> "Center") @@ ("baseline" :> "Baseline") @@ ("stretch" :> "Stretch")

JustifySelfWords ==
    ("auto" :> "Auto") @@ ("start" :> "Start") @@ ("end" :> "End")
    @@ ("center" :> "Center") @@ ("baseline" :> "Baseline") @@ ("stretch" :> "Stretch")

AlignContentWords ==
    ("default" :> "Default") @@ ("start" :> "Start") @@ ("end" :> "End")
    @@ ("flex-start" :> "FlexStart") @@ ("flex-end" :> "FlexEnd")
    @@ ("center" :> "Center") @@ ("stretch" :> "Stretch")
    @@ ("space-between" :> "SpaceBetween") @@ ("space-around" :> "SpaceAround")
    @@ ("space-evenly" :> "SpaceEvenly")

JustifyContentWords ==
    ("default" :> "Default") @@ ("start" :> "Start") @@ ("end" :> "End")
    @@ ("flex-start" :> "FlexStart") @@ ("flex-end" :> "FlexEnd")
    @@ ("center" :> "Center") @@ ("space-between" :> "SpaceBetween")
    @@ ("space-around" :> "SpaceAround") @@ ("space-evenly" :> "SpaceEvenly")

FlexDirectionWords ==
    ("row" :> "Row") @@ ("column" :> "Column") @@ ("row-reverse" :> "RowReverse")
    @@ ("column-reverse" :> "ColumnReverse")

FlexWrapWords ==
    ("nowrap" :> "NoWrap") @@ ("wrap" :> "Wrap") @@ ("wrap-reverse" :> "WrapReverse")

GridAutoFlowWords ==
    ("row" :> "Row") @@ ("column" :> "Column") @@ ("row-dense" :> "RowDense")
    @@ ("column-dense" :> "ColumnDense")

LineBreakWords ==
    ("nowrap" :> "NoWrap") @@ ("word" :> "WordBoundary") @@ ("char" :> "AnyCharacter")

DisplayWords == ("flex" :> "Flex") @@ ("grid" :> "Grid") @@ ("none" :> "None")

\* an identifier of the target's vocabulary converts to its variant
IntoEnum(words, e) ==
    IF e.kind = "Ident" /\ e.v[1] \in DOMAIN words
    THEN Value(<<words[e.v[1]]>>)
    ELSE NoValue

IntoDisplay(e) == IntoEnum(DisplayWords, e)

(***************************************************************************)
(* ComputedStyle: one resolved value per field.  A field is named by its   *)
(* path from the ComputedStyle record, computed.style.overflow.x being     *)
(* "style.overflow.x".                                                     *)
(***************************************************************************)
ColorFields == {"background_color", "border_color", "color"}

ValFields ==
    {"style.left", "style.right", "style.top", "style.bottom",
     "style.width", "style.height", "style.min_width", "style.min_height",
     "style.max_width", "style.max_height", "style.flex_basis"}

RectFields ==
    {"style.margin.left", "style.margin.right", "style.margin.top", "style.margin.bottom",
     "style.padding.left", "style.padding.right", "style.padding.top",
     "style.padding.bottom",
     "style.border.left", "style.border.right", "style.border.top", "style.border.bottom"}

GapFields == {"style.row_gap", "style.column_gap"}

AlignFields ==
    {"style.align_items", "style.justify_items", "style.align_content",
     "style.justify_content"}

SelfFields == {"style.align_self", "style.justify_self"}

GridFields ==
    {"style.grid_row.start", "style.grid_row.span", "style.grid_row.end",
     "style.grid_column.start", "style.grid_column.span", "style.grid_column.end"}

Fields ==
    {"image", "z_index", "line_break", "style.display", "style.position_type",
     "style.overflow.x", "style.overflow.y", "style.direction",
     "style.flex_direction", "style.flex_wrap", "style.flex_grow", "style.flex_shrink",
     "style.grid_auto_flow"}
    \cup ColorFields \cup ValFields \cup RectFields \cup GapFields \cup AlignFields
    \cup SelfFields \cup GridFields

\* GridPlacement::default(): no start, a span of one, no end
DefaultPlacement(f) ==
    IF f \in {"style.grid_row.span", "style.grid_column.span"} THEN <<"1">> ELSE <<"None">>

\* ComputedStyle::default(), the layout record being Style::DEFAULT
DefaultStyle ==
    [f \in Fields |->
        CASE f \in ColorFields \cup {"image", "z_index", "line_break"} -> <<"None">>
          [] f \in ValFields -> <<"Auto", "">>
          [] f \in RectFields \cup GapFields -> <<"Px", "0">>
          [] f \in AlignFields -> <<"Default">>
          [] f \in SelfFields -> <<"Auto">>
          [] f \in GridFields -> DefaultPlacement(f)
          [] f = "style.display" -> <<"Flex">>
          [] f = "style.position_type" -> <<"Relative">>
          [] f \in {"style.overflow.x", "style.overflow.y"} -> <<"Visible">>
          [] f = "style.direction" -> <<"Inherit">>
          [] f \in {"style.flex_direction", "style.grid_auto_flow"} -> <<"Row">>
          [] f = "style.flex_wrap" -> <<"NoWrap">>
          [] f = "style.flex_grow" -> <<"0">>
          [] f = "style.flex_shrink" -> <<"1">>]

(***************************************************************************)
(* ElementStyle::apply_attrs_to: one `if let Ok(x) = expr.eval()` arm per  *)
(* attribute.                                                              *)
(***************************************************************************)
\* An assignment that does not look at the evaluation's outcome: a failed
\* evaluation clears the field.
SetOrClear(c, r, f) == [c EXCEPT ![f] = r.v]

\* if let Ok(x) = expr.eval() { computed.f = *x; }
Set(c, r, f) == IF r.ok THEN [c EXCEPT ![f] = r.v] ELSE c

\* if let Ok(x) = expr.eval() { computed.f = Some(*x); }
SetSome(c, r, f) == IF r.ok THEN [c EXCEPT ![f] = <<"Some">> \o r.v] ELSE c

\* A rect assignment that misses a side.
SetRectButBottom(c, r, f) ==
    IF r.ok
    THEN [c EXCEPT ![f \o ".left"] = r.left, ![f \o ".right"] = r.right,
                   ![f \o ".top"] = r.top]
    ELSE c

\* if let Ok(rect) = expr.eval() { computed.style.margin = *rect; }
SetRect(c, r, f) ==
    IF r.ok
    THEN [c EXCEPT ![f \o ".left"] = r.left, ![f \o ".right"] = r.right,
                   ![f \o ".top"] = r.top, ![f \o ".bottom"] = r.bottom]
    ELSE c

\* An arm of two fields that gives the second the value the first had.
SetBothStale(c, r, f, g) == IF r.ok THEN [c EXCEPT ![f] = r.v, ![g] = c[f]] ELSE c

\* An arm of two fields that writes the first only.
SetFirst(c, r, f, g) == Set(c, r, f)

\* if let Ok(x) = expr.eval() { computed.f = *x; computed.g = *x; }
SetBoth(c, r, f, g) == Set(Set(c, r, f), r, g)

\* A BackgroundImage(None) that leaves the image as it is.
ImageUnlessNone(e) == IF e.kind = "Handle" THEN <<"Some", e.v[1]>> ELSE computed["image"]

\* image.clone() of an Option<Handle<Image>>
ImageOf(e) == IF e.kind = "Handle" THEN <<"Some", e.v[1]>> ELSE <<"None">>

ApplyAttr(attr, c) ==
    LET e == attr.expr IN
    CASE attr.tag = "BackgroundImage" -> [c EXCEPT !["image"] = ImageOf(e)]
      [] attr.tag = "BackgroundColor" -> Set(c, IntoColor(e), "background_color")
      [] attr.tag = "BorderColor" -> Set(c, IntoColor(e), "border_color")
      [] attr.tag = "Color" -> Set(c, IntoColor(e), "color")
      [] attr.tag = "ZIndex" -> SetSome(c, IntoI32(e), "z_index")
      [] attr.tag = "Display" -> Set(c, IntoDisplay(e), "style.display")
      [] attr.tag = "Position" -> Set(c, IntoEnum(PositionTypeWords, e), "style.position_type")
      [] attr.tag = "OverflowX" -> Set(c, IntoEnum(OverflowAxisWords, e), "style.overflow.x")
      [] attr.tag = "OverflowY" -> Set(c, IntoEnum(OverflowAxisWords, e), "style.overflow.y")
      [] attr.tag = "Overflow" ->
            SetBoth(c, IntoEnum(OverflowAxisWords, e), "style.overflow.x", "style.overflow.y")
      [] attr.tag = "Direction" -> Set(c, IntoEnum(DirectionWords, e), "style.direction")
      [] attr.tag = "Left" -> Set(c, IntoLength(e), "style.left")
      [] attr.tag = "Right" -> Set(c, IntoLength(e), "style.right")
      [] attr.tag = "Top" -> Set(c, IntoLength(e), "style.top")
      [] attr.tag = "Bottom" -> Set(c, IntoLength(e), "style.bottom")
      [] attr.tag = "Width" -> Set(c, IntoLength(e), "style.width")
      [] attr.tag = "Height" -> Set(c, IntoLength(e), "style.height")
      [] attr.tag = "MinWidth" -> Set(c, IntoLength(e), "style.min_width")
      [] attr.tag = "MinHeight" -> Set(c, IntoLength(e), "style.min_height")
      [] attr.tag = "MaxWidth" -> Set(c, IntoLength(e), "style.max_width")
      [] attr.tag = "MaxHeight" -> Set(c, IntoLength(e), "style.max_height")
      [] attr.tag = "Margin" -> SetRect(c, IntoUiRect(e), "style.margin")
      [] attr.tag = "MarginLeft" -> Set(c, IntoLength(e), "style.margin.left")
      [] attr.tag = "MarginRight" -> Set(c, IntoLength(e), "style.margin.right")
      [] attr.tag = "MarginTop" -> Set(c, IntoLength(e), "style.margin.top")
      [] attr.tag = "MarginBottom" -> Set(c, IntoLength(e), "style.margin.bottom")
      [] attr.tag = "Padding" -> SetRect(c, IntoUiRect(e), "style.padding")
      [] attr.tag = "PaddingLeft" -> Set(c, IntoLength(e), "style.padding.left")
      [] attr.tag = "PaddingRight" -> Set(c, IntoLength(e), "style.padding.right")
      [] attr.tag = "PaddingTop" -> Set(c, IntoLength(e), "style.padding.top")
      [] attr.tag = "PaddingBottom" -> Set(c, IntoLength(e), "style.padding.bottom")
      [] attr.tag = "Border" -> SetRect(c, IntoUiRect(e), "style.border")
      [] attr.tag = "BorderLeft" -> Set(c, IntoLength(e), "style.border.left")
      [] attr.tag = "BorderRight" -> Set(c, IntoLength(e), "style.border.right")
      [] attr.tag = "BorderTop" -> Set(c, IntoLength(e), "style.border.top")
      [] attr.tag = "BorderBottom" -> Set(c, IntoLength(e), "style.border.bottom")
      [] attr.tag = "FlexDirection" -> Set(c, IntoEnum(FlexDirectionWords, e), "style.flex_direction")
      [] attr.tag = "FlexWrap" -> Set(c, IntoEnum(FlexWrapWords, e), "style.flex_wrap")
      [] attr.tag = "FlexGrow" -> Set(c, IntoF32(e), "style.flex_grow")
      [] attr.tag = "FlexShrink" -> Set(c, IntoF32(e), "style.flex_shrink")
      [] attr.tag = "FlexBasis" -> Set(c, IntoLength(e), "style.flex_basis")
      [] attr.tag = "ColumnGap" -> Set(c, IntoLength(e), "style.column_gap")
      [] attr.tag = "RowGap" -> Set(c, IntoLength(e), "style.row_gap")
      [] attr.tag = "Gap" ->
            SetBoth(c, IntoLength(e), "style.column_gap", "style.row_gap")
      [] attr.tag = "AlignItems" -> Set(c, IntoEnum(AlignItemsWords, e), "style.align_items")
      [] attr.tag = "AlignSelf" -> Set(c, IntoEnum(AlignSelfWords, e), "style.align_self")
      [] attr.tag = "AlignContent" -> Set(c, IntoEnum(AlignContentWords, e), "style.align_content")
      [] attr.tag = "JustifyItems" -> Set(c, IntoEnum(JustifyItemsWords, e), "style.justify_items")
      [] attr.tag = "JustifySelf" -> Set(c, IntoEnum(JustifySelfWords, e), "style.justify_self")
      [] attr.tag = "JustifyContent" -> Set(c, IntoEnum(JustifyContentWords, e), "style.justify_content")

\* for attr in attrs.iter() { match attr { ... } }
RECURSIVE ApplyAttrsFrom(_, _, _)
ApplyAttrsFrom(attrs, i, c) ==
    IF i > Len(attrs) THEN c ELSE ApplyAttrsFrom(attrs, i + 1, ApplyAttr(attrs[i], c))

\* A record-granular merge: the style's attributes replace the whole ComputedStyle.
ApplyAttrsToDefault(attrs, c) == ApplyAttrsFrom(attrs, 1, DefaultStyle)

ApplyAttrsTo(attrs, c) == ApplyAttrsFrom(attrs, 1, c)

\* ElementStyle::apply_to
ApplyTo(s, c) == ApplyAttrsTo(s, c)

(***************************************************************************)
(* ElementStyle::from_ast.  members is a HashMap: the loop visits its      *)
(* entries in the map's iteration order, which is any order of the keys.   *)
(***************************************************************************)
\* TypedExpr::from_expr wraps the expression as it is
FromExpr(value) == value

\* the variant a key of the schema builds with TypedExpr::from_expr; "" for any other key
KeyTag(key) ==
    CASE key = "background_color" -> "BackgroundColor"
      [] key = "border_color" -> "BorderColor"
      [] key = "color" -> "Color"
      [] key = "z_index" -> "ZIndex"
      [] key = "display" -> "Display"
      [] key = "position" -> "Position"
      [] key = "overflow_x" -> "OverflowX"
      [] key = "overflow_y" -> "OverflowY"
      [] key = "overflow" -> "Overflow"
      [] key = "direction" -> "Direction"
      [] key = "left" -> "Left"
      [] key = "right" -> "Right"
      [] key = "top" -> "Top"
      [] key = "bottom" -> "Bottom"
      [] key = "width" -> "Width"
      [] key = "height" -> "Height"
      [] key = "min_width" -> "MinWidth"
      [] key = "min_height" -> "MinHeight"
      [] key = "max_width" -> "MaxWidth"
      [] key = "max_height" -> "MaxHeight"
      [] key = "margin" -> "Margin"
      [] key = "margin_left" -> "MarginLeft"
      [] key = "margin_right" -> "MarginRight"
      [] key = "margin_top" -> "MarginTop"
      [] key = "margin_bottom" -> "MarginBottom"
      [] key = "padding" -> "Padding"
      [] key = "padding_left" -> "PaddingLeft"
      [] key = "padding_right" -> "PaddingRight"
      [] key = "padding_top" -> "PaddingTop"
      [] key = "padding_bottom" -> "PaddingBottom"
      [] key = "border" -> "Border"
      [] key = "border_left" -> "BorderLeft"
      [] key = "border_right" -> "BorderRight"
      [] key = "border_top" -> "BorderTop"
      [] key = "border_bottom" -> "BorderBottom"
      [] key = "flex_direction" -> "FlexDirection"
      [] key = "flex_wrap" -> "FlexWrap"
      [] key = "flex_grow" -> "FlexGrow"
      [] key = "flex_shrink" -> "FlexShrink"
      [] key = "flex_basis" -> "FlexBasis"
      [] key = "row_gap" -> "RowGap"
      [] key = "column_gap" -> "ColumnGap"
      [] key = "gap" -> "Gap"
      [] key = "align_items" -> "AlignItems"
      [] key = "align_self" -> "AlignSelf"
      [] key = "align_content" -> "AlignContent"
      [] key = "justify_items" -> "JustifyItems"
      [] key = "justify_self" -> "JustifySelf"
      [] key = "justify_content" -> "JustifyContent"
      [] OTHER -> ""

Push(attr, load) == [kind |-> "Push", attr |-> attr, key |-> "", load |-> load]

\* A loop body that validates a colour when the style is built.
EagerFromAstEntry(key, value) ==
    IF key = "background_image"
    THEN CASE value.kind = "AssetPath" ->
                Push(Attr("BackgroundImage", HandleOf(value.v[1])), <<value.v[1]>>)
           [] value.kind = "Null" -> Push(Attr("BackgroundImage", NoHandle), <<>>)
           [] value.kind = "Ident" /\ value.v[1] = "none" ->
                Push(Attr("BackgroundImage", NoHandle), <<>>)
           [] OTHER -> [kind |-> "Panic", attr |-> Attr("", Null), key |-> key,
                        load |-> <<>>]
    ELSE IF KeyTag(key) \in {"BackgroundColor", "BorderColor", "Color"}
            /\ ~IntoColor(value).ok
    THEN [kind |-> "Err", attr |-> Attr("", Null), key |-> key, load |-> <<>>]
    ELSE IF KeyTag(key) # ""
    THEN Push(Attr(KeyTag(key), FromExpr(value)), <<>>)
    ELSE [kind |-> "Err", attr |-> Attr("", Null), key |-> key, load |-> <<>>]

\* the body of `for (key, value) in members.iter()`: push, return Err, or panic
FromAstEntry(key, value) ==
    IF key = "background_image"
    THEN CASE value.kind = "AssetPath" ->
                Push(Attr("BackgroundImage", HandleOf(value.v[1])), <<value.v[1]>>)
           [] value.kind = "Null" -> Push(Attr("BackgroundImage", NoHandle), <<>>)
           [] value.kind = "Ident" /\ value.v[1] = "none" ->
                Push(Attr("BackgroundImage", NoHandle), <<>>)
           [] OTHER -> [kind |-> "Panic", attr |-> Attr("", Null), key |-> key,
                        load |-> <<>>]
    ELSE IF KeyTag(key) # ""
    THEN Push(Attr(KeyTag(key), FromExpr(value)), <<>>)
    ELSE [kind |-> "Err", attr |-> Attr("", Null), key |-> key, load |-> <<>>]

\* the loop over the entries in iteration order `entries`, from the i-th on
RECURSIVE FromAstFrom(_, _, _, _)
FromAstFrom(entries, i, attrs, requested) ==
    IF i > Len(entries)
    THEN [kind |-> "Ok", attrs |-> attrs, key |-> "", loads |-> requested]
    ELSE LET r == FromAstEntry(entries[i][1], entries[i][2]) IN
         IF r.kind = "Push"
         THEN FromAstFrom(entries, i + 1, Append(attrs, r.attr), requested \o r.load)
         ELSE [kind |-> r.kind, attrs |-> <<>>, key |-> r.key, loads |-> requested]

FromAst(entries) == FromAstFrom(entries, 1, <<>>, <<>>)

\* the orders a HashMap of n entries can be iterated in
Orders(n) == {o \in [1..n -> 1..n] : \A i, j \in 1..n : o[i] = o[j] => i = j}

Iterated(listing, o) == [i \in 1..Len(listing) |-> listing[o[i]]]

(***************************************************************************)
(* The legacy attribute model: StyleAttr::apply.  A variant holds an Expr, *)
(* converted when it is applied, or a resolved literal, Lit(value).        *)
(***************************************************************************)
\* a copy of the GridPlacement at computed.f, as <<start, span, end>>
PlacementAt(c, f) == c[f \o ".start"] \o c[f \o ".span"] \o c[f \o ".end"]

\* computed.f = *val, for a GridPlacement
SetPlacement(c, p, f) ==
    [c EXCEPT ![f \o ".start"] = <<p[1]>>, ![f \o ".span"] = <<p[2]>>,
              ![f \o ".end"] = <<p[3]>>]

\* GridPlacement's builders take the placement by value and answer the changed copy;
\* each refuses zero
SetStart(p, n) == <<n, p[2], p[3]>>

SetSpan(p, n) == <<p[1], n, p[3]>>

SetEnd(p, n) == <<p[1], p[2], n>>

\* `computed.style.grid_row.set_start(*val);` : the changed copy is dropped
Discard(c, placement) == c

GridPartTags ==
    {"GridRowStart", "GridRowSpan", "GridRowEnd",
     "GridColumnStart", "GridColumnSpan", "GridColumnEnd"}

\* the builder's expect() on a zero grid line or span
StyleAttrPanics(attr) == attr.tag \in GridPartTags /\ attr.expr.v[1] = "0"

StyleAttrApply(attr, c) ==
    LET e == attr.expr IN
    CASE attr.tag = "BackgroundColor" -> Set(c, IntoColor(e), "background_color")
      [] attr.tag = "BorderColor" -> Set(c, IntoColor(e), "border_color")
      [] attr.tag = "Color" -> Set(c, IntoColor(e), "color")
      [] attr.tag = "ZIndex" -> SetSome(c, IntoI32(e), "z_index")
      [] attr.tag = "Display" -> Set(c, IntoDisplay(e), "style.display")
      [] attr.tag = "Position" -> [c EXCEPT !["style.position_type"] = e.v]
      [] attr.tag = "Overflow" ->
            [c EXCEPT !["style.overflow.x"] = e.v, !["style.overflow.y"] = e.v]
      [] attr.tag = "OverflowX" -> [c EXCEPT !["style.overflow.x"] = e.v]
      [] attr.tag = "OverflowY" -> [c EXCEPT !["style.overflow.y"] = e.v]
      [] attr.tag = "Direction" -> [c EXCEPT !["style.direction"] = e.v]
      [] attr.tag = "Left" -> Set(c, IntoLength(e), "style.left")
      [] attr.tag = "Right" -> Set(c, IntoLength(e), "style.right")
      [] attr.tag = "Top" -> Set(c, IntoLength(e), "style.top")
      [] attr.tag = "Bottom" -> Set(c, IntoLength(e), "style.bottom")
      [] attr.tag = "Width" -> Set(c, IntoLength(e), "style.width")
      [] attr.tag = "Height" -> Set(c, IntoLength(e), "style.height")
      [] attr.tag = "MinWidth" -> Set(c, IntoLength(e), "style.min_width")
      [] attr.tag = "MinHeight" -> Set(c, IntoLength(e), "style.min_height")
      [] attr.tag = "MaxWidth" -> Set(c, IntoLength(e), "style.max_width")
      [] attr.tag = "MaxHeight" -> Set(c, IntoLength(e), "style.max_height")
      [] attr.tag = "AlignItems" -> [c EXCEPT !["style.align_items"] = e.v]
      [] attr.tag = "JustifyItems" -> [c EXCEPT !["style.justify_items"] = e.v]
      [] attr.tag = "AlignSelf" -> [c EXCEPT !["style.align_self"] = e.v]
      [] attr.tag = "JustifySelf" -> [c EXCEPT !["style.justify_self"] = e.v]
      [] attr.tag = "AlignContent" -> [c EXCEPT !["style.align_content"] = e.v]
      [] attr.tag = "JustifyContent" -> [c EXCEPT !["style.justify_content"] = e.v]
      [] attr.tag = "Margin" -> SetRect(c, IntoUiRect(e), "style.margin")
      [] attr.tag = "MarginLeft" -> Set(c, IntoLength(e), "style.margin.left")
      [] attr.tag = "MarginRight" -> Set(c, IntoLength(e), "style.margin.right")
      [] attr.tag = "MarginTop" -> Set(c, IntoLength(e), "style.margin.top")
      [] attr.tag = "MarginBottom" -> Set(c, IntoLength(e), "style.margin.bottom")
      [] attr.tag = "Padding" -> SetRect(c, IntoUiRect(e), "style.padding")
      [] attr.tag = "PaddingLeft" -> Set(c, IntoLength(e), "style.padding.left")
      [] attr.tag = "PaddingRight" -> Set(c, IntoLength(e), "style.padding.right")
      [] attr.tag = "PaddingTop" -> Set(c, IntoLength(e), "style.padding.top")
      [] attr.tag = "PaddingBottom" -> Set(c, IntoLength(e), "style.padding.bottom")
      [] attr.tag = "Border" -> SetRect(c, IntoUiRect(e), "style.border")
      [] attr.tag = "BorderLeft" -> Set(c, IntoLength(e), "style.border.left")
      [] attr.tag = "BorderRight" -> Set(c, IntoLength(e), "style.border.right")
      [] attr.tag = "BorderTop" -> Set(c, IntoLength(e), "style.border.top")
      [] attr.tag = "BorderBottom" -> Set(c, IntoLength(e), "style.border.bottom")
      [] attr.tag = "FlexDirection" -> [c EXCEPT !["style.flex_direction"] = e.v]
      [] attr.tag = "FlexWrap" -> [c EXCEPT !["style.flex_wrap"] = e.v]
      [] attr.tag = "FlexGrow" -> Set(c, IntoF32(e), "style.flex_grow")
      [] attr.tag = "FlexShrink" -> Set(c, IntoF32(e), "style.flex_shrink")
      [] attr.tag = "FlexBasis" -> [c EXCEPT !["style.flex_basis"] = e.v]
      [] attr.tag = "RowGap" -> [c EXCEPT !["style.row_gap"] = e.v]
      [] attr.tag = "ColumnGap" -> [c EXCEPT !["style.column_gap"] = e.v]
      [] attr.tag = "Gap" ->
            [c EXCEPT !["style.row_gap"] = e.v, !["style.column_gap"] = e.v]
      [] attr.tag = "GridAutoFlow" -> [c EXCEPT !["style.grid_auto_flow"] = e.v]
      [] attr.tag = "GridRow" -> SetPlacement(c, e.v, "style.grid_row")
      [] attr.tag = "GridRowStart" -> Discard(c, SetStart(PlacementAt(c, "style.grid_row"), e.v[1]))
      [] attr.tag = "GridRowSpan" -> Discard(c, SetSpan(PlacementAt(c, "style.grid_row"), e.v[1]))
      [] attr.tag = "GridRowEnd" -> Discard(c, SetEnd(PlacementAt(c, "style.grid_row"), e.v[1]))
      [] attr.tag = "GridColumn" -> SetPlacement(c, e.v, "style.grid_column")
      [] attr.tag = "GridColumnStart" ->
            Discard(c, SetStart(PlacementAt(c, "style.grid_column"), e.v[1]))
      [] attr.tag = "GridColumnSpan" ->
            Discard(c, SetSpan(PlacementAt(c, "style.grid_column"), e.v[1]))
      [] attr.tag = "GridColumnEnd" ->
            Discard(c, SetEnd(PlacementAt(c, "style.grid_column"), e.v[1]))
      [] attr.tag = "LineBreak" -> [c EXCEPT !["line_break"] = <<"Some">> \o e.v]

\* StyleAsset::apply_to: every attribute in order; a panic ends the walk
RECURSIVE StyleAttrsFrom(_, _, _)
StyleAttrsFrom(attrs, i, c) ==
    IF i > Len(attrs) THEN [panic |-> FALSE, computed |-> c]
    ELSE IF StyleAttrPanics(attrs[i]) THEN [panic |-> TRUE, computed |-> c]
    ELSE StyleAttrsFrom(attrs, i + 1, StyleAttrApply(attrs[i], c))

StyleAssetApplyTo(attrs, c) == StyleAttrsFrom(attrs, 1, c)

(***************************************************************************)
(* Controller::compute_style and Controller::update_styles.                *)
(***************************************************************************)
NotLoaded == <<Attr("NotLoaded", Null)>>

\* for handle in view.styleset_handles.iter() { if let Some(style) = assets.get(handle) ... }
RECURSIVE SheetsFrom(_, _, _, _)
SheetsFrom(handles, i, c, loaded) ==
    IF i > Len(handles) THEN [panic |-> FALSE, computed |-> c]
    ELSE IF loaded[handles[i]] = NotLoaded THEN SheetsFrom(handles, i + 1, c, loaded)
    ELSE LET r == StyleAssetApplyTo(loaded[handles[i]], c) IN
         IF r.panic THEN r ELSE SheetsFrom(handles, i + 1, r.computed, loaded)

\* A cascade that merges the inline style before the stylesheets.
InlineFirstComputeStyle(c, view, loaded) ==
    LET r == IF view.inline_style = <<>> THEN [panic |-> FALSE, computed |-> c]
             ELSE StyleAssetApplyTo(view.inline_style[1], c)
    IN  IF r.panic THEN r ELSE SheetsFrom(view.styleset_handles, 1, r.computed, loaded)

\* A cascade that gives up the stylesheets when one of them is not available.
AllOrNothingComputeStyle(c, view, loaded) ==
    LET missing == \E i \in 1..Len(view.styleset_handles) :
                        loaded[view.styleset_handles[i]] = NotLoaded
        r == IF missing THEN [panic |-> FALSE, computed |-> c]
             ELSE SheetsFrom(view.styleset_handles, 1, c, loaded)
    IN  IF r.panic \/ view.inline_style = <<>> THEN r
        ELSE StyleAssetApplyTo(view.inline_style[1], r.computed)

\* view is [styleset_handles, inline_style]; inline_style is <<>> or <<style>>
ComputeStyle(c, view, loaded) ==
    LET r == SheetsFrom(view.styleset_handles, 1, c, loaded) IN
    IF r.panic \/ view.inline_style = <<>> THEN r
    ELSE StyleAssetApplyTo(view.inline_style[1], r.computed)

\* An update that merges into the ComputedStyle the entity has.
UpdateStylesInPlace(view, loaded) == ComputeStyle(computed, view, loaded)

\* let mut computed = ComputedStyle::default(); self.compute_style(&mut computed, ..)
UpdateStyles(view, loaded) == ComputeStyle(DefaultStyle, view, loaded)

(***************************************************************************)
(* The inputs of a run.  A run stays within one property family: the keys  *)
(* a structured document may use, the expressions it may give them, and    *)
(* the legacy attributes a StyleAsset may hold.                            *)
(***************************************************************************)
Px5 == Length("5", "px")
Box == Rect("1", "px", "2", "px", "3", "px", "4", "px")

RectFamily(box, Tag, a, A, b, B) ==
    [keys |-> {box, box \o "_" \o a, box \o "_" \o b},
     exprs |-> {Box, Px5, Null},
     attrs |-> {Attr(Tag, Box), Attr(Tag, Px5), Attr(Tag \o A, Px5),
                Attr(Tag \o A, Number("7")), Attr(Tag \o B, Px5), Attr(Tag \o B, Null)}]

Family ==
    ("image" :>
        [keys |-> {"background_image", "background_color"},
         exprs |-> {AssetPath("a.png"), AssetPath("b.png"), Null, ColorExpr("red")},
         attrs |-> {Attr("BackgroundColor", ColorExpr("red")),
                    Attr("BackgroundColor", ColorExpr("blue")),
                    Attr("BackgroundColor", Null)}])
    @@ ("color" :>
        [keys |-> {"border_color", "color"},
         exprs |-> {ColorExpr("red"), ColorExpr("blue"), Ident("auto")},
         attrs |-> {Attr("Color", ColorExpr("red")), Attr("Color", ColorExpr("blue")),
                    Attr("Color", Ident("auto")), Attr("BorderColor", ColorExpr("red")),
                    Attr("BorderColor", Number("1"))}])
    @@ ("layout" :>
        [keys |-> {"z_index", "display", "position"},
         exprs |-> {Number("3"), Ident("grid"), Ident("absolute")},
         attrs |-> {Attr("ZIndex", Number("3")), Attr("ZIndex", Ident("grid")),
                    Attr("Display", Ident("grid")), Attr("Display", Number("3")),
                    Attr("Position", Lit(<<"Absolute">>)),
                    Attr("Position", Lit(<<"Relative">>))}])
    @@ ("overflow" :>
        [keys |-> {"overflow", "overflow_x", "overflow_y"},
         exprs |-> {Ident("clip"), Ident("visible"), Number("1")},
         attrs |-> {Attr("Overflow", Lit(<<"Clip">>)), Attr("Overflow", Lit(<<"Visible">>)),
                    Attr("OverflowX", Lit(<<"Clip">>)), Attr("OverflowX", Lit(<<"Visible">>)),
                    Attr("OverflowY", Lit(<<"Clip">>)), Attr("OverflowY", Lit(<<"Visible">>))}])
    @@ ("direction" :>
        [keys |-> {"direction", "flex_direction", "flex_wrap"},
         exprs |-> {Ident("rtl"), Ident("column"), Ident("wrap")},
         attrs |-> {Attr("Direction", Lit(<<"RightToLeft">>)),
                    Attr("FlexDirection", Lit(<<"Column">>)),
                    Attr("FlexWrap", Lit(<<"Wrap">>)),
                    Attr("GridAutoFlow", Lit(<<"Column">>)),
                    Attr("LineBreak", Lit(<<"WordBoundary">>)),
                    Attr("LineBreak", Lit(<<"NoWrap">>))}])
    @@ ("inset_x" :>
        [keys |-> {"left", "right"},
         exprs |-> {Px5, Number("7"), Null},
         attrs |-> {Attr("Left", Px5), Attr("Left", Null), Attr("Right", Number("7")),
                    Attr("Right", Px5)}])
    @@ ("inset_y" :>
        [keys |-> {"top", "bottom"},
         exprs |-> {Length("5", "%"), Ident("auto"), EmptyList},
         attrs |-> {Attr("Top", Length("5", "%")), Attr("Top", EmptyList),
                    Attr("Bottom", Ident("auto")), Attr("Bottom", Length("5", "%"))}])
    @@ ("size" :>
        [keys |-> {"width", "height"},
         exprs |-> {Length("5", "vw"), Length("5", "vh"), Length("5", "em")},
         attrs |-> {Attr("Width", Length("5", "vw")), Attr("Width", Length("5", "em")),
                    Attr("Height", Length("5", "vh")), Attr("Height", Px5)}])
    @@ ("min_size" :>
        [keys |-> {"min_width", "min_height"},
         exprs |-> {Length("5", "vmin"), Number("7"), ColorExpr("red")},
         attrs |-> {Attr("MinWidth", Length("5", "vmin")), Attr("MinWidth", ColorExpr("red")),
                    Attr("MinHeight", Number("7")), Attr("MinHeight", Px5)}])
    @@ ("max_size" :>
        [keys |-> {"max_width", "max_height"},
         exprs |-> {Length("5", "vmax"), Number("7"), AssetPath("a.png")},
         attrs |-> {Attr("MaxWidth", Length("5", "vmax")),
                    Attr("MaxWidth", AssetPath("a.png")),
                    Attr("MaxHeight", Number("7")), Attr("MaxHeight", Px5)}])
    @@ ("margin_x" :> RectFamily("margin", "Margin", "left", "Left", "right", "Right"))
    @@ ("margin_y" :> RectFamily("margin", "Margin", "top", "Top", "bottom", "Bottom"))
    @@ ("padding_x" :> RectFamily("padding", "Padding", "left", "Left", "right", "Right"))
    @@ ("padding_y" :> RectFamily("padding", "Padding", "top", "Top", "bottom", "Bottom"))
    @@ ("border_x" :> RectFamily("border", "Border", "left", "Left", "right", "Right"))
    @@ ("border_y" :> RectFamily("border", "Border", "top", "Top", "bottom", "Bottom"))
    @@ ("flex" :>
        [keys |-> {"flex_grow", "flex_shrink", "flex_basis"},
         exprs |-> {Number("2"), Length("5", "%"), Ident("auto")},
         attrs |-> {Attr("FlexGrow", Number("2")), Attr("FlexGrow", Ident("auto")),
                    Attr("FlexShrink", Number("2")), Attr("FlexShrink", Null),
                    Attr("FlexBasis", Lit(<<"Percent", "5">>)),
                    Attr("FlexBasis", Lit(<<"Px", "7">>))}])
    @@ ("gap" :>
        [keys |-> {"gap", "row_gap", "column_gap"},
         exprs |-> {Px5, Number("7"), Null},
         attrs |-> {Attr("Gap", Lit(<<"Px", "5">>)), Attr("Gap", Lit(<<"Auto", "">>)),
                    Attr("RowGap", Lit(<<"Px", "7">>)), Attr("RowGap", Lit(<<"Px", "5">>)),
                    Attr("ColumnGap", Lit(<<"Px", "7">>)),
                    Attr("ColumnGap", Lit(<<"Percent", "5">>))}])
    @@ ("align" :>
        [keys |-> {"align_items", "align_self", "align_content"},
         exprs |-> {Ident("center"), Ident("auto"), Ident("space-between")},
         attrs |-> {Attr("AlignItems", Lit(<<"Center">>)), Attr("AlignItems", Lit(<<"End">>)),
                    Attr("AlignSelf", Lit(<<"Center">>)), Attr("AlignSelf", Lit(<<"End">>)),
                    Attr("AlignContent", Lit(<<"SpaceBetween">>)),
                    Attr("AlignContent", Lit(<<"Center">>))}])
    @@ ("justify" :>
        [keys |-> {"justify_items", "justify_self", "justify_content"},
         exprs |-> {Ident("center"), Ident("auto"), Ident("space-between")},
         attrs |-> {Attr("JustifyItems", Lit(<<"Center">>)),
                    Attr("JustifyItems", Lit(<<"End">>)),
                    Attr("JustifySelf", Lit(<<"Center">>)), Attr("JustifySelf", Lit(<<"End">>)),
                    Attr("JustifyContent", Lit(<<"SpaceBetween">>)),
                    Attr("JustifyContent", Lit(<<"Center">>))}])
    @@ ("grid_row" :>
        [keys |-> {},
         exprs |-> {},
         attrs |-> {Attr("GridRow", Lit(<<"1", "1", "3">>)),
                    Attr("GridRow", Lit(<<"2", "2", "None">>)),
                    Attr("GridRowStart", Lit(<<"4">>)), Attr("GridRowStart", Lit(<<"0">>)),
                    Attr("GridRowSpan", Lit(<<"5">>)), Attr("GridRowEnd", Lit(<<"6">>))}])
    @@ ("grid_column" :>
        [keys |-> {},
         exprs |-> {},
         attrs |-> {Attr("GridColumn", Lit(<<"1", "1", "3">>)),
                    Attr("GridColumn", Lit(<<"2", "2", "None">>)),
                    Attr("GridColumnStart", Lit(<<"4">>)),
                    Attr("GridColumnSpan", Lit(<<"5">>)), Attr("GridColumnSpan", Lit(<<"0">>)),
                    Attr("GridColumnEnd", Lit(<<"6">>))}])
    @@ ("mixed" :>
        [keys |-> {"color", "overflow", "margin_left", "width"},
         exprs |-> {ColorExpr("red"), Ident("clip"), Px5},
         attrs |-> {Attr("Color", ColorExpr("red")), Attr("Overflow", Lit(<<"Clip">>)),
                    Attr("MarginLeft", Px5), Attr("Width", Px5),
                    Attr("ZIndex", Number("3")), Attr("Margin", Box)}])
    @@ ("schema" :>
        [keys |-> {"background_image", "color", "not_a_real_property", "flex"},
         exprs |-> {AssetPath("a.png"), Number("1"), Ident("none")},
         attrs |-> {}])

\* the sequences over S of at most n elements
SeqsUpTo(S, n) == UNION {[1..m -> S] : m \in 0..n}

\* a mapping as the document lists it: (key, value) pairs, no key twice
Listings(fam) ==
    {l \in SeqsUpTo(Family[fam].keys \X Family[fam].exprs, MaxMembers) :
        \A i, j \in 1..Len(l) : l[i][1] = l[j][1] => i = j}

\* the ElementStyles from_ast can build: from_ast is the only constructor with attributes
Styles(fam) == {FromAst(l).attrs : l \in {m \in Listings(fam) : FromAst(m).kind = "Ok"}}

\* the legacy StyleAssets of a family
StyleAssets(fam) == SeqsUpTo(Family[fam].attrs, MaxAttrs)

(***************************************************************************)
(* The cascade: styles are merged into one ComputedStyle, call after call. *)
(* call holds the arguments of the one call a run observes, and the        *)
(* ComputedStyle it was given; the calls before it are seen by their       *)
(* effect on computed alone, and the run ends with the observed call.      *)
(***************************************************************************)
Fresh ==
    /\ style = <<>>
    /\ computed = DefaultStyle
    /\ call = [op |-> "new"]
    /\ ret = [kind |-> "None"]
    /\ loads = <<>>
    /\ assets = <<>>

Merging == call.op \in {"new", "merge"}

Observe(obs, op, attrs) ==
    IF obs THEN [op |-> op, attrs |-> attrs, before |-> computed] ELSE [op |-> "merge"]

Init == scope \in DOMAIN Family /\ Fresh

\* ElementStyle::apply_to(&self, computed)
ElementStyleApplyTo ==
    /\ Merging
    /\ \E s \in Styles(scope), obs \in BOOLEAN :
        /\ style' = IF obs THEN s ELSE <<>>
        /\ call' = Observe(obs, "apply_to", s)
        /\ computed' = ApplyTo(s, computed)
    /\ UNCHANGED <<scope, ret, loads, assets>>

\* StyleAsset::apply_to(&self, computed): StyleAttr::apply for each attribute
LegacyApplyTo ==
    /\ Merging
    /\ \E a \in StyleAssets(scope), obs \in BOOLEAN :
        LET r == StyleAssetApplyTo(a, computed) IN
        /\ call' = Observe(obs \/ r.panic, "apply", a)
        /\ computed' = r.computed
        /\ ret' = [kind |-> IF r.panic THEN "Panic" ELSE "None"]
    /\ UNCHANGED <<scope, style, loads, assets>>

\* the observed style applied a second time; once is the ComputedStyle after the
\* first time
ElementStyleApplyAgain ==
    /\ call.op = "apply_to"
    /\ call' = [op |-> "apply_to_again", attrs |-> call.attrs, once |-> computed]
    /\ computed' = ApplyTo(call.attrs, computed)
    /\ UNCHANGED <<scope, style, ret, loads, assets>>

LegacyApplyAgain ==
    /\ call.op = "apply"
    /\ ret.kind # "Panic"
    /\ LET r == StyleAssetApplyTo(call.attrs, computed) IN
        /\ call' = [op |-> "apply_again", attrs |-> call.attrs, once |-> computed]
        /\ computed' = r.computed
        /\ ret' = [kind |-> IF r.panic THEN "Panic" ELSE "None"]
    /\ UNCHANGED <<scope, style, loads, assets>>

Next ==
    ElementStyleApplyTo \/ LegacyApplyTo \/ ElementStyleApplyAgain \/ LegacyApplyAgain

Spec == Init /\ [][Next]_vars

(***************************************************************************)
(* Loading: from_ast builds a style from a mapping, and the style is       *)
(* merged into a fresh ComputedStyle.                                      *)
(***************************************************************************)
\* ElementStyle::from_ast(members, load_context)
LoadFromAst ==
    /\ call.op = "new"
    /\ \E l \in Listings(scope) : \E o \in Orders(Len(l)) :
        LET r == FromAst(Iterated(l, o)) IN
        /\ call' = [op |-> "from_ast", listing |-> l]
        /\ ret' = [kind |-> r.kind, attrs |-> r.attrs, key |-> r.key]
        /\ loads' = r.loads
        /\ style' = IF r.kind = "Ok" THEN r.attrs ELSE style
    /\ UNCHANGED <<scope, computed, assets>>

\* the style just built, merged into the fresh ComputedStyle
ApplyBuilt ==
    /\ call.op = "from_ast" /\ ret.kind = "Ok"
    /\ call' = [call EXCEPT !.op = "apply_built"]
    /\ computed' = ApplyTo(style, computed)
    /\ UNCHANGED <<scope, style, ret, loads, assets>>

NextFromAst == LoadFromAst \/ ApplyBuilt

SpecFromAst == Init /\ [][NextFromAst]_vars

(***************************************************************************)
(* The controller: stylesheets become available in Assets<StyleAsset>, and *)
(* update_styles merges a view's stylesheets and inline style.             *)
(***************************************************************************)
Handles == {"h1", "h2"}

\* the attributes the stylesheets and inline styles of a controller run hold
SheetAttrs ==
    ("color" :>
        {Attr("Color", ColorExpr("red")), Attr("Color", ColorExpr("blue")),
         Attr("Color", Ident("auto"))})
    @@ ("overflow" :>
        {Attr("Overflow", Lit(<<"Clip">>)), Attr("Overflow", Lit(<<"Visible">>)),
         Attr("OverflowX", Lit(<<"Clip">>))})
    @@ ("margin_x" :>
        {Attr("Margin", Box), Attr("MarginLeft", Px5), Attr("MarginLeft", Null)})
    @@ ("grid_row" :>
        {Attr("GridRow", Lit(<<"1", "1", "3">>)), Attr("GridRowStart", Lit(<<"4">>)),
         Attr("GridRowStart", Lit(<<"0">>))})

Sheets(fam) == SeqsUpTo(SheetAttrs[fam], MaxSheetAttrs)

\* what compute_style reads of a ViewElement
Views(fam) ==
    [styleset_handles : SeqsUpTo(Handles, MaxSheets),
     inline_style : {<<>>} \cup {<<s>> : s \in Sheets(fam)}]

InitController ==
    /\ scope \in DOMAIN SheetAttrs
    /\ style = <<>>
    /\ computed = DefaultStyle
    /\ call = [op |-> "new"]
    /\ ret = [kind |-> "None"]
    /\ loads = <<>>
    /\ assets = [h \in Handles |-> NotLoaded]

\* the asset server finishes loading a stylesheet
AssetLoaded ==
    /\ call.op = "new"
    /\ \E h \in Handles, s \in Sheets(scope) :
        /\ assets[h] = NotLoaded
        /\ assets' = [assets EXCEPT ![h] = s]
    /\ UNCHANGED <<scope, style, computed, call, ret, loads>>

\* Controller::update_styles(commands, entity, view, assets)
UpdateStylesCall ==
    /\ call.op = "new"
    /\ \E view \in Views(scope) :
        LET r == UpdateStyles(view, assets) IN
        /\ call' = [op |-> "update_styles", view |-> view]
        /\ computed' = r.computed
        /\ ret' = [kind |-> IF r.panic THEN "Panic" ELSE "None"]
    /\ UNCHANGED <<scope, style, loads, assets>>

NextController == AssetLoaded \/ UpdateStylesCall

SpecController == InitController /\ [][NextController]_vars

(***************************************************************************)
(* One entity updated again and again, as its stylesheets become           *)
(* available.  computed is the ComputedStyle the last command gave it.     *)
(***************************************************************************)
\* the stylesheets and inline styles of these runs hold one attribute
EntitySheets(fam) == {<<a>> : a \in SheetAttrs[fam]}

EntityViews(fam) ==
    [styleset_handles : {<<"h1">>, <<"h1", "h2">>, <<"h2", "h1">>},
     inline_style : {<<>>} \cup {<<s>> : s \in EntitySheets(fam)}]

\* the asset server finishes loading a stylesheet; the entity keeps its ComputedStyle
SheetLoaded ==
    /\ ret.kind # "Panic"
    /\ \E h \in Handles, s \in EntitySheets(scope) :
        /\ assets[h] = NotLoaded
        /\ assets' = [assets EXCEPT ![h] = s]
    /\ call' = [op |-> "new"]
    /\ ret' = [kind |-> "None"]
    /\ UNCHANGED <<scope, style, computed, loads>>

\* commands.add(UpdateComputedStyle { entity, computed })
UpdateComputedStyle(c) == [entity |-> "entity", computed |-> c]

\* Controller::update_styles(commands, entity, view, assets), called any number of
\* times; before is the ComputedStyle of the entity when it is called, commands
\* the commands it adds
UpdateStylesAgain ==
    /\ ret.kind # "Panic"
    /\ \E view \in EntityViews(scope) :
        LET r == UpdateStyles(view, assets) IN
        /\ call' = [op |-> "update_styles", view |-> view, before |-> computed]
        /\ computed' = r.computed
        /\ ret' = [kind |-> IF r.panic THEN "Panic" ELSE "None",
                   commands |-> IF r.panic THEN <<>>
                                ELSE <<UpdateComputedStyle(r.computed)>>]
    /\ UNCHANGED <<scope, style, loads, assets>>

NextUpdates == SheetLoaded \/ UpdateStylesAgain

SpecUpdates == InitController /\ [][NextUpdates]_vars

(***************************************************************************)
(* StyleAttr::parse_val.  A string is the sequence of its characters.      *)
(***************************************************************************)
Digits == {"0", "1", "5"}

\* the characters of the regex class [\-\d\.] that the input strings use
NumChars == Digits \cup {"-", "."}

\* the alternatives of the regex group (px|vw|vh|vmin|vmax|%)
UnitStrings ==
    {<<"p", "x">>, <<"v", "w">>, <<"v", "h">>, <<"v", "m", "i", "n">>,
     <<"v", "m", "a", "x">>, <<"%">>}

AutoString == <<"a", "u", "t", "o">>

\* the length of the longest prefix of str in the class [\-\d\.]
RECURSIVE NumPrefix(_)
NumPrefix(str) ==
    IF str = <<>> \/ str[1] \notin NumChars THEN 0 ELSE 1 + NumPrefix(Tail(str))

\* RE.captures(str) for ^([\-\d\.]+)(px|vw|vh|vmin|vmax|%)?$ : no unit holds a
\* character of the class, so group 1 is the longest prefix in the class
Captures(str) ==
    LET k == NumPrefix(str)
        rest == SubSeq(str, k + 1, Len(str))
    IN  IF k >= 1 /\ rest \in UnitStrings \cup {<<>>}
        THEN [matched |-> TRUE, num |-> SubSeq(str, 1, k), unit |-> rest]
        ELSE [matched |-> FALSE, num |-> <<>>, unit |-> <<>>]

RECURSIVE StripLeading(_)
StripLeading(ds) ==
    IF ds # <<>> /\ ds[1] = "0" THEN StripLeading(Tail(ds)) ELSE ds

RECURSIVE StripTrailing(_)
StripTrailing(ds) ==
    IF ds # <<>> /\ ds[Len(ds)] = "0"
    THEN StripTrailing(SubSeq(ds, 1, Len(ds) - 1))
    ELSE ds

\* the decimal digits of f32::MAX, about 3.4 * 10^38
F32MaxDigits == 39

\* the whole part of an infinite f32, as {} writes it
Infinity == <<"i", "n", "f">>

\* f32::from_str over the class: an optional sign, then digits with at most one
\* point and at least one digit.  The number is kept as its sign, whole digits and
\* fraction digits, zeros that do not change it stripped
\* (the f32 nearest to it being the same for all the strings of one such number).
\* A number above f32::MAX is infinity: any of more digits than f32::MAX, and of
\* those with as many the ones that start with 5 (the digits here are 0, 1, 5)
F32FromStr(s) ==
    LET neg == s # <<>> /\ s[1] = "-"
        body == IF neg THEN Tail(s) ELSE s
        points == {i \in 1..Len(body) : body[i] = "."}
        p == IF points = {} THEN Len(body) + 1 ELSE CHOOSE i \in points : TRUE
        whole == StripLeading(SubSeq(body, 1, p - 1))
        frac == StripTrailing(SubSeq(body, p + 1, Len(body)))
    IN  IF /\ \A i \in 1..Len(body) : body[i] \in Digits \cup {"."}
           /\ Cardinality(points) <= 1
           /\ \E i \in 1..Len(body) : body[i] \in Digits
        THEN IF Len(whole) > F32MaxDigits
                \/ (Len(whole) = F32MaxDigits /\ whole[1] = "5")
             THEN [ok |-> TRUE, neg |-> neg, whole |-> Infinity, frac |-> <<>>]
             ELSE [ok |-> TRUE, neg |-> neg /\ (whole \o frac) # <<>>,
                   whole |-> whole, frac |-> frac]
        ELSE [ok |-> FALSE, neg |-> FALSE, whole |-> <<>>, frac |-> <<>>]

\* A Val that loses the sign of its number.
ValOfMagnitude(variant, n) ==
    [kind |-> "Ok", variant |-> variant, neg |-> FALSE, whole |-> n.whole, frac |-> n.frac]

ValOf(variant, n) ==
    [kind |-> "Ok", variant |-> variant, neg |-> n.neg, whole |-> n.whole, frac |-> n.frac]

InvalidAttributeValue(str) ==
    [kind |-> "Err", error |-> "InvalidAttributeValue", str |-> str]

Panic == [kind |-> "Panic"]

ParseVal(str) ==
    IF str = AutoString THEN [kind |-> "Ok", variant |-> "Auto"]
    ELSE LET cap == Captures(str)
             dist == F32FromStr(cap.num)
         IN  IF ~cap.matched THEN InvalidAttributeValue(str)
             ELSE IF ~dist.ok THEN Panic
             ELSE CASE cap.unit = <<>> -> ValOf("Px", dist)
                    [] cap.unit = <<"p", "x">> -> ValOf("Px", dist)
                    [] cap.unit = <<"%">> -> ValOf("Percent", dist)
                    [] cap.unit = <<"v", "w">> -> ValOf("Vw", dist)
                    [] cap.unit = <<"v", "h">> -> ValOf("Vh", dist)
                    [] cap.unit = <<"v", "m", "i", "n">> -> ValOf("VMin", dist)
                    [] cap.unit = <<"v", "m", "a", "x">> -> ValOf("VMax", dist)
                    [] OTHER -> Panic

\* what may follow the numeric part of an input string
Suffixes ==
    UnitStrings \cup {<<>>, <<"b", "a", "d">>, <<"e", "m">>, <<"p", "x", "x">>}

Strings == {AutoString} \cup {n \o s : n \in SeqsUpTo(NumChars, MaxNum), s \in Suffixes}

InitParse ==
    /\ scope = "parse"
    /\ Fresh

\* StyleAttr::parse_val(str)
ParseValCall ==
    /\ call.op = "new"
    /\ \E str \in Strings :
        /\ call' = [op |-> "parse_val", str |-> str]
        /\ ret' = ParseVal(str)
    /\ UNCHANGED <<scope, style, computed, loads, assets>>

(***************************************************************************)
(* StyleAttr::parse_uirect.                                                *)
(***************************************************************************)
\* str.split_whitespace(): the maximal runs of characters that are not spaces
RECURSIVE SplitFrom(_, _, _)
SplitFrom(str, cur, toks) ==
    LET closed == IF cur = <<>> THEN toks ELSE Append(toks, cur) IN
    IF str = <<>> THEN closed
    ELSE IF str[1] = " " THEN SplitFrom(Tail(str), <<>>, closed)
    ELSE SplitFrom(Tail(str), Append(cur, str[1]), toks)

SplitWhitespace(str) == SplitFrom(str, <<>>, <<>>)

UiRect(left, right, top, bottom) ==
    [kind |-> "Ok", left |-> left, right |-> right, top |-> top, bottom |-> bottom]

\* each parse_val(..)? returns its error from parse_uirect; a panic unwinds through it
ParseUiRect(str) ==
    LET sides == SplitWhitespace(str)
        n == Len(sides)
        top == ParseVal(sides[1])
        right == IF n >= 2 THEN ParseVal(sides[2]) ELSE top
        bottom == IF n >= 3 THEN ParseVal(sides[3]) ELSE top
        left == IF n >= 4 THEN ParseVal(sides[4]) ELSE right
    IN  IF n = 0 THEN InvalidAttributeValue(str)
        ELSE IF top.kind # "Ok" THEN top
        ELSE IF right.kind # "Ok" THEN right
        ELSE IF bottom.kind # "Ok" THEN bottom
        ELSE IF left.kind # "Ok" THEN left
        ELSE IF n <= 4 THEN UiRect(left, right, top, bottom)
        ELSE InvalidAttributeValue(str)

\* the tokens the rect strings are made of
TokenPool ==
    {<<"1", "p", "x">>, <<"5", "%">>, <<"-", "1", "v", "w">>, AutoString,
     <<"1", ".", "1", "b", "a", "d">>, <<"1", ".", "1", ".", "1">>}

\* the tokens joined by one space, or by two with a space before and after
RECURSIVE Spaced(_, _)
Spaced(tokens, wide) ==
    LET gap == IF wide THEN <<" ", " ">> ELSE <<" ">> IN
    IF tokens = <<>> THEN (IF wide THEN <<" ">> ELSE <<>>)
    ELSE IF Len(tokens) = 1 THEN (IF wide THEN <<" ">> \o tokens[1] \o <<" ">> ELSE tokens[1])
    ELSE (IF wide THEN <<" ">> ELSE <<>>) \o tokens[1] \o gap
         \o Spaced(Tail(tokens), FALSE)
         \o (IF wide THEN <<" ">> ELSE <<>>)

\* StyleAttr::parse_uirect(str)
ParseUiRectCall ==
    /\ call.op = "new"
    /\ \E tokens \in SeqsUpTo(TokenPool, MaxTokens), wide \in BOOLEAN :
        /\ call' = [op |-> "parse_uirect", str |-> Spaced(tokens, wide), tokens |-> tokens]
        /\ ret' = ParseUiRect(Spaced(tokens, wide))
    /\ UNCHANGED <<scope, style, computed, loads, assets>>

(***************************************************************************)
(* StyleAttr::parse_i16, parse_u16 and parse_grid_placement.               *)
(***************************************************************************)
ToDigit(ch) == CASE ch = "0" -> 0 [] ch = "1" -> 1 [] ch = "5" -> 5

RECURSIVE Decimal(_)
Decimal(ds) ==
    IF ds = <<>> THEN 0
    ELSE 10 * Decimal(SubSeq(ds, 1, Len(ds) - 1)) + ToDigit(ds[Len(ds)])

I16Max == 32767
U16Max == 65535

\* <integer>::from_str: an optional '+' (or '-' for a signed type), then at least
\* one digit, the value within the type's range
IntFromStr(s, signed, max) ==
    LET plus == s # <<>> /\ s[1] = "+"
        minus == signed /\ s # <<>> /\ s[1] = "-"
        body == IF plus \/ minus THEN Tail(s) ELSE s
        digits == body # <<>> /\ \A i \in 1..Len(body) : body[i] \in Digits
        n == IF minus THEN 0 - Decimal(body) ELSE Decimal(body)
    IN  IF digits /\ n <= max /\ n >= (IF signed THEN 0 - max - 1 ELSE 0)
        THEN [ok |-> TRUE, n |-> n]
        ELSE [ok |-> FALSE, n |-> 0]

I16FromStr(s) == IntFromStr(s, TRUE, I16Max)

U16FromStr(s) == IntFromStr(s, FALSE, U16Max)

ParseI16(str) ==
    IF I16FromStr(str).ok THEN [kind |-> "Ok", n |-> I16FromStr(str).n]
    ELSE InvalidAttributeValue(str)

ParseU16(str) ==
    IF U16FromStr(str).ok THEN [kind |-> "Ok", n |-> U16FromStr(str).n]
    ELSE InvalidAttributeValue(str)

\* the characters of the regex class [\d\.] that the input strings use
GridChars == Digits \cup {"."}

\* the length of the longest prefix of str made of characters of class
RECURSIVE PrefixIn(_, _)
PrefixIn(str, class) ==
    IF str = <<>> \/ str[1] \notin class THEN 0 ELSE 1 + PrefixIn(Tail(str), class)

Drop(str, k) == SubSeq(str, k + 1, Len(str))

SpanWord == <<"s", "p", "a", "n">>

\* RE_GRID_1.captures(str) for ^([\d\.]+)\s*/\s*([\d\.]+)$ and, with span,
\* RE_GRID_2.captures(str) for ^([\d\.]+)\s*/\s*span\s*([\d\.]+)$ : the classes
\* of adjacent parts are disjoint, so each part is the longest run of its class
GridCaptures(str, span) ==
    LET k == PrefixIn(str, GridChars)
        slash == Drop(Drop(str, k), PrefixIn(Drop(str, k), {" "}))
        after == Drop(Tail(slash), PrefixIn(Tail(slash), {" "}))
        second == IF span THEN Drop(Drop(after, 4), PrefixIn(Drop(after, 4), {" "}))
                  ELSE after
    IN  IF /\ k >= 1
           /\ slash # <<>> /\ slash[1] = "/"
           /\ span => (Len(after) >= 4 /\ SubSeq(after, 1, 4) = SpanWord)
           /\ second # <<>> /\ PrefixIn(second, GridChars) = Len(second)
        THEN [matched |-> TRUE, first |-> SubSeq(str, 1, k), second |-> second]
        ELSE [matched |-> FALSE, first |-> <<>>, second |-> <<>>]

\* GridPlacement::default(): no start, a span of one, no end; 0 stands for the
\* None of an Option<NonZero>
GridPlacementDefault == <<0, 1, 0>>

\* the closure mapped over the captures: each unwrap() panics on a token that
\* is not an integer of its type, each builder panics on zero
Placed(cap, span) ==
    LET start == I16FromStr(cap.first)
        other == IF span THEN U16FromStr(cap.second) ELSE I16FromStr(cap.second)
    IN  IF ~start.ok \/ start.n = 0 \/ ~other.ok \/ other.n = 0 THEN Panic
        ELSE [kind |-> "Ok",
              placement |-> IF span
                            THEN SetSpan(SetStart(GridPlacementDefault, start.n), other.n)
                            ELSE SetEnd(SetStart(GridPlacementDefault, start.n), other.n)]

NoCaptures == [kind |-> "None"]

\* Option::or takes its argument by value: the second regex runs and its closure
\* is applied whether or not the first one matched
ParseGridPlacement(str) ==
    LET one == IF GridCaptures(str, FALSE).matched
               THEN Placed(GridCaptures(str, FALSE), FALSE) ELSE NoCaptures
        two == IF GridCaptures(str, TRUE).matched
               THEN Placed(GridCaptures(str, TRUE), TRUE) ELSE NoCaptures
    IN  IF one = Panic \/ two = Panic THEN Panic
        ELSE IF one # NoCaptures THEN one
        ELSE IF two # NoCaptures THEN two
        ELSE InvalidAttributeValue(str)

(***************************************************************************)
(* StyleAttr::parse.                                                       *)
(***************************************************************************)
\* the arms whose value is matched against the literals of an enumeration
EnumArms ==
    ("position" :> [tag |-> "Position", words |-> PositionTypeWords])
    @@ ("overflow" :> [tag |-> "Overflow", words |-> OverflowAxisWords])
    @@ ("overflow-x" :> [tag |-> "OverflowX", words |-> OverflowAxisWords])
    @@ ("overflow-y" :> [tag |-> "OverflowY", words |-> OverflowAxisWords])
    @@ ("direction" :> [tag |-> "Direction", words |-> DirectionWords])
    @@ ("align-items" :> [tag |-> "AlignItems", words |-> AlignItemsWords])
    @@ ("justify-items" :> [tag |-> "JustifyItems", words |-> JustifyItemsWords])
    @@ ("align-self" :> [tag |-> "AlignSelf", words |-> AlignSelfWords])
    @@ ("justify-self" :> [tag |-> "JustifySelf", words |-> JustifySelfWords])
    @@ ("align-content" :> [tag |-> "AlignContent", words |-> AlignContentWords])
    @@ ("justify-content" :> [tag |-> "JustifyContent", words |-> JustifyContentWords])
    @@ ("flex-direction" :> [tag |-> "FlexDirection", words |-> FlexDirectionWords])
    @@ ("flex-wrap" :> [tag |-> "FlexWrap", words |-> FlexWrapWords])
    @@ ("grid-auto-flow" :> [tag |-> "GridAutoFlow", words |-> GridAutoFlowWords])
    @@ ("line-break" :> [tag |-> "LineBreak", words |-> LineBreakWords])

\* the arms that call parse_val
ValArms ==
    ("flex-basis" :> "FlexBasis") @@ ("row-gap" :> "RowGap")
    @@ ("column-gap" :> "ColumnGap") @@ ("gap" :> "Gap")

\* the arms that call parse_grid_placement
PlacementArms == ("grid-row" :> "GridRow") @@ ("grid-column" :> "GridColumn")

\* the arms that call parse_i16
I16Arms ==
    ("grid-row-start" :> "GridRowStart") @@ ("grid-row-end" :> "GridRowEnd")
    @@ ("grid-column-start" :> "GridColumnStart") @@ ("grid-column-end" :> "GridColumnEnd")

\* the arms that call parse_u16
U16Arms == ("grid-row-span" :> "GridRowSpan") @@ ("grid-column-span" :> "GridColumnSpan")

UnknownAttributeValue(value) ==
    [kind |-> "Err", error |-> "UnknownAttributeValue", str |-> value]

\* Ok(Some(attr)) and Ok(None)
OkSome(tag, value) == [kind |-> "Ok", some |-> TRUE, tag |-> tag, value |-> value]

OkNone == [kind |-> "Ok", some |-> FALSE]

\* StyleAttr::Tag(parser(value)?)
Wrapped(tag, parsed) == IF parsed.kind = "Ok" THEN OkSome(tag, parsed) ELSE parsed

\* An enumeration arm that answers its first literal for any other string.
ParseEnumOrFirst(arm, value) ==
    IF value \in DOMAIN arm.words
    THEN OkSome(arm.tag, arm.words[value])
    ELSE OkSome(arm.tag, arm.words[CHOOSE w \in DOMAIN arm.words : TRUE])

ParseEnum(arm, value) ==
    IF value \in DOMAIN arm.words
    THEN OkSome(arm.tag, arm.words[value])
    ELSE UnknownAttributeValue(value)

\* A fall-through arm that reports the name's value as unknown.
RejectUnknownName(name, value) == UnknownAttributeValue(value)

UnknownName(name, value) == OkNone

Parse(name, value) ==
    CASE name \in DOMAIN EnumArms -> ParseEnum(EnumArms[name], value)
      [] name \in DOMAIN ValArms -> Wrapped(ValArms[name], ParseVal(value))
      [] name \in DOMAIN PlacementArms ->
            Wrapped(PlacementArms[name], ParseGridPlacement(value))
      [] name \in DOMAIN I16Arms -> Wrapped(I16Arms[name], ParseI16(value))
      [] name \in DOMAIN U16Arms -> Wrapped(U16Arms[name], ParseU16(value))
      [] OTHER -> UnknownName(name, value)

\* names that have no arm: arms that are commented out, names of the structured
\* form, a name in the wrong case, the empty name
OtherNames ==
    {"left", "width", "margin", "padding-left", "flex", "flex-grow", "z-index",
     "display", "background-color", "flex_direction", "Position", "position ", ""}

\* the names above whose commented-out arm would parse a length or a rect
LengthLikeNames == {"left", "width", "margin", "padding-left"}

\* the literals of all the enumerations, and strings that are none of them
Literals ==
    UNION {DOMAIN EnumArms[name].words : name \in DOMAIN EnumArms}
    \cup {"diagonal", "", "Absolute", "absolute ", " clip", "row,column", "none"}

\* the integer tokens of the grid strings
GridNumbers ==
    {<<"1">>, <<"5">>, <<"0">>, <<"0", "1">>, <<"1", ".", "5">>, <<".">>,
     <<"5", "0", "0", "0", "0">>, <<"1", "0", "0", "0", "0", "0">>, <<"-", "1">>, <<>>}

Gaps == {<<>>, <<" ">>}

GridStrings ==
    {a \o s1 \o <<"/">> \o s2 \o k \o s3 \o b \o t :
        a \in GridNumbers, b \in GridNumbers, s1 \in Gaps, s2 \in Gaps, s3 \in Gaps,
        k \in {<<>>, SpanWord, <<"s", "p">>}, t \in {<<>>, <<"x">>}}
    \cup GridNumbers \cup {a \o <<" ">> \o b : a \in GridNumbers, b \in GridNumbers}

IntStrings ==
    GridNumbers \cup {<<"+", "5">>, <<"-">>, <<"-", "5", "0", "0", "0", "0">>, <<"1", " ">>}

\* a number of one digit more than f32::MAX has
HugeNumber == [i \in 1..(F32MaxDigits + 1) |-> IF i = 1 THEN "1" ELSE "0"]

HugeStrings == {HugeNumber \o <<"p", "x">>, <<"-">> \o HugeNumber, SubSeq(HugeNumber, 1, F32MaxDigits) \o <<"%">>}

ValuesFor(name) ==
    CASE name \in DOMAIN ValArms -> Strings \cup HugeStrings
      [] name \in DOMAIN PlacementArms -> GridStrings
      [] name \in DOMAIN I16Arms \cup DOMAIN U16Arms -> IntStrings
      [] name \in LengthLikeNames -> TokenPool
      [] OTHER -> Literals

\* StyleAttr::parse(name, value)
ParseCall ==
    /\ call.op = "new"
    /\ \E name \in DOMAIN EnumArms \cup DOMAIN ValArms \cup DOMAIN PlacementArms
                   \cup DOMAIN I16Arms \cup DOMAIN U16Arms \cup OtherNames :
        \E value \in ValuesFor(name) :
            /\ call' = [op |-> "parse", name |-> name, value |-> value]
            /\ ret' = Parse(name, value)
    /\ UNCHANGED <<scope, style, computed, loads, assets>>

(***************************************************************************)
(* StyleAttr::write_xml.  An element is the sequence of the attributes     *)
(* pushed on it.                                                            *)
(***************************************************************************)
\* {} of an f32: the digits of the number, no exponent; "inf" for infinity
F32ToString(n) ==
    (IF n.neg THEN <<"-">> ELSE <<>>)
    \o (IF n.whole = <<>> THEN <<"0">> ELSE n.whole)
    \o (IF n.frac = <<>> THEN <<>> ELSE <<".">> \o n.frac)

\* StyleAttr::val_to_str(val)
ValToStr(val) ==
    CASE val.variant = "Auto" -> AutoString
      [] val.variant = "Px" -> F32ToString(val) \o <<"p", "x">>
      [] val.variant = "Percent" -> F32ToString(val) \o <<"%">>
      [] val.variant = "Vw" -> F32ToString(val) \o <<"v", "w">>
      [] val.variant = "Vh" -> F32ToString(val) \o <<"v", "h">>
      [] val.variant = "VMin" -> F32ToString(val) \o <<"v", "m", "i", "n">>
      [] val.variant = "VMax" -> F32ToString(val) \o <<"v", "m", "a", "x">>

DigitChars == <<"0", "1", "2", "3", "4", "5", "6", "7", "8", "9">>

RECURSIVE NatToString(_)
NatToString(n) ==
    IF n < 10 THEN <<DigitChars[n + 1]>>
    ELSE NatToString(n \div 10) \o <<DigitChars[(n % 10) + 1]>>

\* i16::to_string(val) and u16::to_string(val)
IntToString(n) == IF n < 0 THEN <<"-">> \o NatToString(0 - n) ELSE NatToString(n)

\* the arms that push the literal of an enumeration
EnumWritten ==
    ("Position" :> [name |-> "position", words |-> PositionTypeWords])
    @@ ("Overflow" :> [name |-> "overflow", words |-> OverflowAxisWords])
    @@ ("OverflowX" :> [name |-> "overflow-x", words |-> OverflowAxisWords])
    @@ ("OverflowY" :> [name |-> "overflow-y", words |-> OverflowAxisWords])
    @@ ("Direction" :> [name |-> "direction", words |-> DirectionWords])
    @@ ("AlignItems" :> [name |-> "align-items", words |-> AlignItemsWords])
    @@ ("JustifyItems" :> [name |-> "justify-items", words |-> JustifyItemsWords])
    @@ ("AlignSelf" :> [name |-> "align-self", words |-> AlignSelfWords])
    @@ ("JustifySelf" :> [name |-> "justify-self", words |-> JustifySelfWords])
    @@ ("AlignContent" :> [name |-> "align-content", words |-> AlignContentWords])
    @@ ("JustifyContent" :> [name |-> "justify-content", words |-> JustifyContentWords])
    @@ ("FlexDirection" :> [name |-> "flex-direction", words |-> FlexDirectionWords])
    @@ ("FlexWrap" :> [name |-> "flex-wrap", words |-> FlexWrapWords])
    @@ ("GridAutoFlow" :> [name |-> "grid-auto-flow", words |-> GridAutoFlowWords])
    @@ ("LineBreak" :> [name |-> "line-break", words |-> LineBreakWords])

\* the arms that push val_to_str(*val)
ValWritten ==
    ("FlexBasis" :> "flex-basis") @@ ("RowGap" :> "row-gap")
    @@ ("ColumnGap" :> "column-gap") @@ ("Gap" :> "gap")

\* the arms that push i16::to_string(val) or u16::to_string(val)
IntWritten ==
    ("GridRowStart" :> "grid-row-start") @@ ("GridRowSpan" :> "grid-row-span")
    @@ ("GridRowEnd" :> "grid-row-end") @@ ("GridColumnStart" :> "grid-column-start")
    @@ ("GridColumnSpan" :> "grid-column-span") @@ ("GridColumnEnd" :> "grid-column-end")

\* the literal an arm's inner match gives for a variant: the literals are those
\* StyleAttr::parse matches, variant for variant
LiteralOf(words, variant) == CHOOSE w \in DOMAIN words : words[w] = variant

\* elem.push_attribute((name, value))
PushAttribute(elem, name, value) == Append(elem, [name |-> name, value |-> value])

\* An arm that pushes the attribute's name before it aborts.
PushThenPanic(elem, tag) == [kind |-> "Panic", elem |-> PushAttribute(elem, tag, "")]

\* panic!("Unsupported, can't write GridPlacement") and todo!("Implement attr")
Unsupported(elem, tag) == [kind |-> "Panic", elem |-> elem]

Pushed(elem, name, value) == [kind |-> "Ok", elem |-> PushAttribute(elem, name, value)]

\* StyleAttr::write_xml(&self, elem)
WriteXml(attr, elem) ==
    CASE attr.tag \in DOMAIN EnumWritten ->
            Pushed(elem, EnumWritten[attr.tag].name,
                   LiteralOf(EnumWritten[attr.tag].words, attr.value))
      [] attr.tag \in DOMAIN ValWritten ->
            Pushed(elem, ValWritten[attr.tag], ValToStr(attr.value))
      [] attr.tag \in DOMAIN IntWritten ->
            Pushed(elem, IntWritten[attr.tag], IntToString(attr.value.n))
      [] OTHER -> Unsupported(elem, attr.tag)

\* the variants that hold an expression, with an expression each
ExprBacked ==
    {[tag |-> t, value |-> e] :
        t \in {"BackgroundColor", "BorderColor", "Color", "ZIndex",
               "Display", "Left", "Right", "Top", "Bottom", "Width", "Height",
               "MinWidth", "MinHeight", "MaxWidth", "MaxHeight", "Margin",
               "MarginLeft", "Padding", "PaddingTop", "Border", "BorderBottom",
               "FlexGrow", "FlexShrink"},
        e \in {Number("1"), ColorExpr("red")}}

\* the elements an attribute is written to: a new one, or one with an attribute
Elems == {<<>>, <<[name |-> "id", value |-> "main"]>>}

\* attr.write_xml(&mut elem), for an attribute that parse returned or for one of
\* the variants that hold an expression
WriteXmlCall ==
    /\ \/ call.op = "new"
       \/ call.op = "parse" /\ ret.kind = "Ok" /\ ret.some
    /\ \E elem \in Elems :
        \E attr \in IF call.op = "parse"
                    THEN {[tag |-> ret.tag, value |-> ret.value]}
                    ELSE ExprBacked :
            /\ call' = [op |-> "write_xml", attr |-> attr, elem |-> elem]
            /\ ret' = WriteXml(attr, elem)
    /\ UNCHANGED <<scope, style, computed, loads, assets>>

\* StyleAttr::parse(name, value) on the attribute that write_xml pushed last
ReparseCall ==
    /\ call.op = "write_xml"
    /\ ret.kind = "Ok"
    /\ LET pushed == ret.elem[Len(ret.elem)] IN
        /\ call' = [op |-> "reparse", attr |-> call.attr,
                    name |-> pushed.name, value |-> pushed.value]
        /\ ret' = Parse(pushed.name, pushed.value)
    /\ UNCHANGED <<scope, style, computed, loads, assets>>

NextParse ==
    ParseValCall \/ ParseUiRectCall \/ ParseCall \/ WriteXmlCall \/ ReparseCall

SpecParse == InitParse /\ [][NextParse]_vars

(***************************************************************************)
(* The reference resolution pass.  A path string is the sequence of its    *)
(* segments; the segment "#" starts the label, a first segment "/" makes    *)
(* the path absolute.                                                       *)
(***************************************************************************)
MaxChildren == 2    \* children of a container node of the input tree

\* AssetPath::new(path, label); an empty label is None
AssetPathNew(path, label) == [path |-> path, label |-> label]

\* the position of the first "#" of a path string, 0 without one
HashAt(str) ==
    IF \E i \in 1..Len(str) : str[i] = "#"
    THEN CHOOSE i \in 1..Len(str) : str[i] = "#" /\ \A j \in 1..(i - 1) : str[j] # "#"
    ELSE 0

\* relative_asset_path(base, relative_path): a label alone names an asset of the
\* base's document, an absolute path is kept, any other path is anchored to the
\* directory of the base
RelativeAssetPath(base, str) ==
    LET h == HashAt(str)
        file == IF h = 0 THEN str ELSE SubSeq(str, 1, h - 1)
        label == IF h = 0 THEN <<>> ELSE SubSeq(str, h + 1, Len(str))
    IN  IF file = <<>> THEN AssetPathNew(base.path, label)
        ELSE IF file[1] = "/" THEN AssetPathNew(file, label)
        ELSE AssetPathNew(SubSeq(base.path, 1, Len(base.path) - 1) \o file, label)

\* AssetRef::new(path)
AssetRefNew(path) == [path |-> path, resolved |-> AssetPathNew(path, <<>>)]

\* the path string an AssetPath is written as
Written(p) == p.path \o (IF p.label = <<>> THEN <<>> ELSE <<"#">> \o p.label)

\* A resolution that starts from the resolved path instead of the original one.
ResolveResolvedPath(ref, base) ==
    [ref EXCEPT !.resolved = RelativeAssetPath(base, Written(ref.resolved))]

\* AssetRef::resolve_asset_path(&mut self, base)
ResolveAssetPath(ref, base) ==
    [ref EXCEPT !.resolved = RelativeAssetPath(base, ref.path)]

\* StyleAsset::resolve_asset_paths(base): every asset reference in an attribute
\* of the style is resolved against base
ResolveAssetPaths(sa, base) ==
    [sa EXCEPT !.attrs =
        [i \in 1..Len(sa.attrs) |->
            IF "image" \in DOMAIN sa.attrs[i]
            THEN [sa.attrs[i] EXCEPT !.image = ResolveAssetPath(@, base)]
            ELSE sa.attrs[i]]]

\* GuiseTemplatesLoader::visit_stylesheet(style, base)
VisitStylesheet(sa, base) == ResolveAssetPaths(sa, base)

\* the handle LoadContext::load answers for a path, and Handle::default()
Handle(path) == [path |-> path]

DefaultHandle == Handle(AssetPathNew(<<>>, <<>>))

\* A load of the path as written, base ignored.
LoadUnanchored(base, str) == Handle(AssetPathNew(str, <<>>))

\* lc.load(relative_asset_path(base, path))
LoadRelative(base, str) == Handle(RelativeAssetPath(base, str))

\* The heap is the sequence of the cells that Arc::new allocated, a node or an
\* inline style each; a reference is the cell's position, NoStyle is None.
NoStyle == 0

\* A resolution of the inline style where it lies.
ResolvedInPlace(heap, sa, base) ==
    IF sa = NoStyle THEN [heap |-> heap, at |-> NoStyle]
    ELSE [heap |-> [heap EXCEPT ![sa] = VisitStylesheet(heap[sa], base)],
          at |-> sa]

\* `let mut style = sa.as_ref().clone(); self.visit_stylesheet(&mut style, base);
\* Some(Arc::new(style))`
ResolvedInline(heap, sa, base) ==
    IF sa = NoStyle THEN [heap |-> heap, at |-> NoStyle]
    ELSE [heap |-> Append(heap, VisitStylesheet(heap[sa], base)),
          at |-> Len(heap) + 1]

\* A Text arm that builds a new node with the same text.
CopiedText(heap, node) == [heap |-> Append(heap, heap[node]), node |-> Len(heap) + 1]

\* TemplateNode::Text(_) => node.clone() : one more reference to the same cell
SharedText(heap, node) == [heap |-> heap, node |-> node]

RECURSIVE VisitTemplateNode(_, _, _, _), VisitChildren(_, _, _, _)

\* children.iter().map(|child| self.visit_template_node(child, lc, base)).collect()
VisitChildren(heap, requested, children, base) ==
    IF children = <<>> THEN [heap |-> heap, loads |-> requested, nodes |-> <<>>]
    ELSE LET first == VisitTemplateNode(heap, requested, children[1], base)
             rest == VisitChildren(first.heap, first.loads, Tail(children), base)
         IN  [heap |-> rest.heap, loads |-> rest.loads,
              nodes |-> <<first.node>> \o rest.nodes]

\* GuiseTemplatesLoader::visit_template_node(node, lc, base); requested is what
\* lc was asked to load so far
VisitTemplateNode(heap, requested, node, base) ==
    LET cell == heap[node] IN
    CASE cell.kind = "Element" ->
            LET handles == [i \in 1..Len(cell.styleset) |->
                                LoadRelative(base, cell.styleset[i])]
                inline == ResolvedInline(heap, cell.inline_style, base)
                kids == VisitChildren(inline.heap,
                                      requested \o [i \in 1..Len(handles) |-> handles[i].path],
                                      cell.children, base)
            IN  [heap |-> Append(kids.heap,
                                 [cell EXCEPT !.styleset_handles = handles,
                                              !.inline_style = inline.at,
                                              !.children = kids.nodes]),
                 loads |-> kids.loads,
                 node |-> Len(kids.heap) + 1]
      [] cell.kind = "Fragment" ->
            LET kids == VisitChildren(heap, requested, cell.children, base) IN
            [heap |-> Append(kids.heap, [cell EXCEPT !.children = kids.nodes]),
             loads |-> kids.loads,
             node |-> Len(kids.heap) + 1]
      [] cell.kind = "Text" ->
            [heap |-> SharedText(heap, node).heap, loads |-> requested,
             node |-> SharedText(heap, node).node]
      [] cell.kind = "Call" ->
            LET inline == ResolvedInline(heap, cell.inline_style, base)
                handle == LoadRelative(base, cell.template)
            IN  [heap |-> Append(inline.heap,
                                 [cell EXCEPT !.inline_style = inline.at,
                                              !.template_handle = handle]),
                 loads |-> Append(requested, handle.path),
                 node |-> Len(inline.heap) + 1]

(***************************************************************************)
(* The documents the pass runs on: a template tree as it was deserialized, *)
(* every node and every inline style in a cell of its own.                 *)
(***************************************************************************)
TextNode(text) == [kind |-> "Text", text |-> text]

CallNode(template, sa) ==
    [kind |-> "Call", inline_style |-> sa, template |-> template,
     template_handle |-> DefaultHandle, params |-> <<"title">>]

ElementNode(styleset, sa, children) ==
    [kind |-> "Element", styleset |-> styleset, styleset_handles |-> <<>>,
     inline_style |-> sa, id |-> "panel", controller |-> "button",
     attrs |-> <<"disabled">>, children |-> children]

FragmentNode(children) == [kind |-> "Fragment", children |-> children]

\* an inline style with an asset reference in one of its attributes
ImageStyle ==
    [kind |-> "StyleAsset",
     attrs |-> <<[tag |-> "ZIndex", expr |-> Number("1")],
                 [tag |-> "BackgroundImage", image |-> AssetRefNew(<<"img", "a.png">>)]>>]

\* a style without one
PlainStyle == [kind |-> "StyleAsset", attrs |-> <<[tag |-> "ZIndex", expr |-> Number("1")]>>]

Leaves ==
    {TextNode("hi"),
     CallNode(<<"#", "main">>, <<>>),
     CallNode(<<"lib", "w.json", "#", "t">>, <<ImageStyle>>),
     ElementNode(<<<<"#", "a">>, <<"lib", "b.json", "#", "s">>>>, <<ImageStyle>>, <<>>)}

Container(k, children) ==
    CASE k = "Fragment" -> FragmentNode(children)
      [] k = "Bare" -> ElementNode(<<>>, <<>>, children)
      [] k = "Styled" ->
            ElementNode(<<<<"/", "x", "c.json", "#", "s">>, <<"#", "a">>>>,
                        <<ImageStyle>>, children)

Containers == {"Fragment", "Bare", "Styled"}

\* containers of leaves, and containers of those
Shallow == {Container(k, cs) : k \in Containers, cs \in SeqsUpTo(Leaves, MaxChildren)}

Deep ==
    {Container(k, <<c>>) : k \in Containers, c \in Shallow}
    \cup {Container(k, <<TextNode("hi"), c>>) : k \in Containers, c \in Shallow}

Trees == Leaves \cup Shallow \cup Deep

\* the document being loaded, with the label of the asset being resolved
Bases ==
    {AssetPathNew(<<"ui", "main.guise.json">>, <<"templates", "main">>),
     AssetPathNew(<<"doc.guise.json">>, <<"templates", "t">>)}

RECURSIVE Alloc(_, _), AllocAll(_, _)

AllocAll(heap, trees) ==
    IF trees = <<>> THEN [heap |-> heap, nodes |-> <<>>]
    ELSE LET first == Alloc(heap, trees[1])
             rest == AllocAll(first.heap, Tail(trees))
         IN  [heap |-> rest.heap, nodes |-> <<first.node>> \o rest.nodes]

\* TemplateNodeRef::new and Arc::new, as the deserializer calls them
Alloc(heap, tree) ==
    LET styled == IF "inline_style" \in DOMAIN tree /\ tree.inline_style # <<>>
                  THEN [heap |-> Append(heap, tree.inline_style[1]), at |-> Len(heap) + 1]
                  ELSE [heap |-> heap, at |-> NoStyle]
        kids == IF "children" \in DOMAIN tree
                THEN AllocAll(styled.heap, tree.children)
                ELSE [heap |-> styled.heap, nodes |-> <<>>]
        cell == CASE tree.kind = "Text" -> tree
                  [] tree.kind = "Fragment" -> [tree EXCEPT !.children = kids.nodes]
                  [] tree.kind = "Call" -> [tree EXCEPT !.inline_style = styled.at]
                  [] tree.kind = "Element" ->
                        [tree EXCEPT !.inline_style = styled.at, !.children = kids.nodes]
    IN  [heap |-> Append(kids.heap, cell), node |-> Len(kids.heap) + 1]

InitResolve ==
    /\ scope = "resolve"
    /\ Fresh

\* GuiseTemplatesLoader::visit_template_node(node, lc, base) on a deserialized tree
VisitTemplateNodeCall ==
    /\ call.op = "new"
    /\ \E tree \in Trees, base \in Bases :
        LET doc == Alloc(<<>>, tree)
            r == VisitTemplateNode(doc.heap, <<>>, doc.node, base)
        IN  /\ call' = [op |-> "visit_template_node", heap |-> doc.heap,
                        node |-> doc.node, base |-> base]
            /\ ret' = [kind |-> "Ok", heap |-> r.heap, node |-> r.node]
            /\ loads' = r.loads
    /\ UNCHANGED <<scope, style, computed, assets>>

(***************************************************************************)
(* AssetRef.  ret is the AssetRef that new built and that each             *)
(* resolve_asset_path changes; call keeps the path it was built from and   *)
(* the bases it was resolved against so far.                               *)
(***************************************************************************)
MaxResolves == 3    \* calls of resolve_asset_path on one AssetRef

RefPaths ==
    {<<"img", "a.png">>, <<"b.png">>, <<"/", "abs", "c.png">>, <<"#", "icon">>,
     <<"lib", "d.json", "#", "s">>}

\* AssetRef::new(path)
AssetRefNewCall ==
    /\ call.op = "new"
    /\ \E path \in RefPaths :
        /\ call' = [op |-> "asset_ref_new", path |-> path, bases |-> <<>>]
        /\ ret' = AssetRefNew(path)
    /\ UNCHANGED <<scope, style, computed, loads, assets>>

\* AssetRef::resolve_asset_path(&mut self, base)
ResolveAssetPathCall ==
    /\ call.op \in {"asset_ref_new", "resolve_asset_path"}
    /\ Len(call.bases) < MaxResolves
    /\ \E base \in Bases :
        /\ call' = [op |-> "resolve_asset_path", path |-> call.path,
                    bases |-> Append(call.bases, base), before |-> ret]
        /\ ret' = ResolveAssetPath(ret, base)
    /\ UNCHANGED <<scope, style, computed, loads, assets>>

(***************************************************************************)
(* GuiseTemplatesLoader::load.  While a document loads, assets holds the   *)
(* labeled assets the load context was given, in the order it got them.    *)
(***************************************************************************)
\* AssetSerial.styles and .templates of the documents, as (name, value) pairs
StyleMaps ==
    {<<>>} \cup {<<<<n, s>>>> : n \in {"s1", "s2"}, s \in {ImageStyle, PlainStyle}}
    \cup {<<<<"s1", s>>, <<"s2", t>>>> : s \in {ImageStyle, PlainStyle},
                                         t \in {ImageStyle, PlainStyle}}

\* TemplateAsset.content: None, or a tree
Contents == {<<>>} \cup {<<t>> : t \in Leaves}

TemplateMaps ==
    {<<>>} \cup {<<<<n, c>>>> : n \in {"t1", "t2"}, c \in Contents}
    \cup {<<<<"t1", c>>, <<"t2", d>>>> : c \in Contents, d \in Contents}

\* what the reader gives: an error, bytes that do not decode, or a document
Readers ==
    {[kind |-> "ReadError"], [kind |-> "Bytes", valid |-> FALSE]}
    \cup {[kind |-> "Bytes", valid |-> TRUE, styles |-> s, templates |-> t] :
            s \in StyleMaps, t \in TemplateMaps}

DocPath == <<"ui", "main.guise.json">>

\* A label that is the name alone.
BareLabel(kind, key) == <<key>>

\* format!("styles/{}", key) and format!("templates/{}", key)
Label(kind, key) == <<kind, key>>

\* entries.styles.drain().for_each(..): each style resolved against the document
\* path with its label, and added under the label
LoadedStyles(styles) ==
    [i \in 1..Len(styles) |->
        LET label == Label("styles", styles[i][1]) IN
        [label |-> label,
         asset |-> VisitStylesheet(styles[i][2], AssetPathNew(DocPath, label))]]

\* entries.templates.drain().for_each(..): the content of each template is
\* visited, if it has one, and the template added under its label
RECURSIVE LoadedTemplates(_, _)
LoadedTemplates(templates, requested) ==
    IF templates = <<>> THEN [labeled |-> <<>>, loads |-> requested]
    ELSE LET label == Label("templates", templates[1][1])
             content == templates[1][2]
             doc == Alloc(<<>>, content[1])
             r == VisitTemplateNode(doc.heap, requested, doc.node,
                                    AssetPathNew(DocPath, label))
             asset == IF content = <<>> THEN [heap |-> <<>>, content |-> 0]
                      ELSE [heap |-> r.heap, content |-> r.node]
             rest == LoadedTemplates(Tail(templates),
                                     IF content = <<>> THEN requested ELSE r.loads)
         IN  [labeled |-> <<[label |-> label, asset |-> asset]>> \o rest.labeled,
              loads |-> rest.loads]

\* load(reader, settings, load_context), the maps drained in the orders so and to
Load(reader, so, to) ==
    IF reader.kind = "ReadError"
    THEN [ret |-> [kind |-> "Err", error |-> "Io"], labeled |-> <<>>, loads |-> <<>>]
    ELSE IF ~reader.valid
    THEN [ret |-> Panic, labeled |-> <<>>, loads |-> <<>>]
    ELSE LET styles == LoadedStyles(Iterated(reader.styles, so))
             templates == LoadedTemplates(Iterated(reader.templates, to), <<>>)
         IN  [ret |-> [kind |-> "Ok", styles |-> <<>>, templates |-> <<>>],
              labeled |-> styles \o templates.labeled,
              loads |-> templates.loads]

\* GuiseTemplatesLoader::load(reader, settings, load_context)
LoadCall ==
    /\ call.op = "new"
    /\ \E reader \in Readers :
        \E so \in Orders(IF reader.kind = "Bytes" /\ reader.valid
                         THEN Len(reader.styles) ELSE 0),
           to \in Orders(IF reader.kind = "Bytes" /\ reader.valid
                         THEN Len(reader.templates) ELSE 0) :
            LET r == Load(reader, so, to) IN
            /\ call' = [op |-> "load", reader |-> reader]
            /\ ret' = r.ret
            /\ assets' = r.labeled
            /\ loads' = r.loads
    /\ UNCHANGED <<scope, style, computed>>

NextResolve ==
    VisitTemplateNodeCall \/ AssetRefNewCall \/ ResolveAssetPathCall \/ LoadCall

SpecResolve == InitResolve /\ [][NextResolve]_vars

(***************************************************************************)
(* What the documentation says of each attribute, by name: the field or    *)
(* fields it targets and the value its expression resolves to.             *)
(***************************************************************************)
ScalarTarget ==
    ("BackgroundImage" :> "image") @@ ("BackgroundColor" :> "background_color")
    @@ ("BorderColor" :> "border_color") @@ ("Color" :> "color")
    @@ ("ZIndex" :> "z_index") @@ ("LineBreak" :> "line_break")
    @@ ("Display" :> "style.display") @@ ("Position" :> "style.position_type")
    @@ ("OverflowX" :> "style.overflow.x") @@ ("OverflowY" :> "style.overflow.y")
    @@ ("Direction" :> "style.direction")
    @@ ("Left" :> "style.left") @@ ("Right" :> "style.right")
    @@ ("Top" :> "style.top") @@ ("Bottom" :> "style.bottom")
    @@ ("Width" :> "style.width") @@ ("Height" :> "style.height")
    @@ ("MinWidth" :> "style.min_width") @@ ("MinHeight" :> "style.min_height")
    @@ ("MaxWidth" :> "style.max_width") @@ ("MaxHeight" :> "style.max_height")
    @@ ("MarginLeft" :> "style.margin.left") @@ ("MarginRight" :> "style.margin.right")
    @@ ("MarginTop" :> "style.margin.top") @@ ("MarginBottom" :> "style.margin.bottom")
    @@ ("PaddingLeft" :> "style.padding.left") @@ ("PaddingRight" :> "style.padding.right")
    @@ ("PaddingTop" :> "style.padding.top") @@ ("PaddingBottom" :> "style.padding.bottom")
    @@ ("BorderLeft" :> "style.border.left") @@ ("BorderRight" :> "style.border.right")
    @@ ("BorderTop" :> "style.border.top") @@ ("BorderBottom" :> "style.border.bottom")
    @@ ("FlexDirection" :> "style.flex_direction") @@ ("FlexWrap" :> "style.flex_wrap")
    @@ ("FlexGrow" :> "style.flex_grow") @@ ("FlexShrink" :> "style.flex_shrink")
    @@ ("FlexBasis" :> "style.flex_basis")
    @@ ("RowGap" :> "style.row_gap") @@ ("ColumnGap" :> "style.column_gap")
    @@ ("AlignItems" :> "style.align_items") @@ ("AlignSelf" :> "style.align_self")
    @@ ("AlignContent" :> "style.align_content")
    @@ ("JustifyItems" :> "style.justify_items") @@ ("JustifySelf" :> "style.justify_self")
    @@ ("JustifyContent" :> "style.justify_content")
    @@ ("GridAutoFlow" :> "style.grid_auto_flow")
    @@ ("GridRowStart" :> "style.grid_row.start") @@ ("GridRowSpan" :> "style.grid_row.span")
    @@ ("GridRowEnd" :> "style.grid_row.end")
    @@ ("GridColumnStart" :> "style.grid_column.start")
    @@ ("GridColumnSpan" :> "style.grid_column.span")
    @@ ("GridColumnEnd" :> "style.grid_column.end")

\* the composite attributes, and the record each one fills
CompositeOf ==
    ("Overflow" :> "style.overflow") @@ ("Margin" :> "style.margin")
    @@ ("Padding" :> "style.padding") @@ ("Border" :> "style.border")
    @@ ("GridRow" :> "style.grid_row") @@ ("GridColumn" :> "style.grid_column")

RectTags == {"Margin", "Padding", "Border"}

Sides == {"left", "right", "top", "bottom"}

ComponentsOf(tag) ==
    CASE tag = "Overflow" -> {"x", "y"}
      [] tag \in RectTags -> Sides
      [] tag \in {"GridRow", "GridColumn"} -> {"start", "span", "end"}

TargetsOf(tag) ==
    CASE tag = "Gap" -> GapFields
      [] tag \in DOMAIN CompositeOf ->
            {CompositeOf[tag] \o "." \o part : part \in ComponentsOf(tag)}
      [] OTHER -> {ScalarTarget[tag]}

WordsOf ==
    ("Position" :> PositionTypeWords) @@ ("Overflow" :> OverflowAxisWords)
    @@ ("OverflowX" :> OverflowAxisWords) @@ ("OverflowY" :> OverflowAxisWords)
    @@ ("Direction" :> DirectionWords) @@ ("FlexDirection" :> FlexDirectionWords)
    @@ ("FlexWrap" :> FlexWrapWords) @@ ("AlignItems" :> AlignItemsWords)
    @@ ("AlignSelf" :> AlignSelfWords) @@ ("AlignContent" :> AlignContentWords)
    @@ ("JustifyItems" :> JustifyItemsWords) @@ ("JustifySelf" :> JustifySelfWords)
    @@ ("JustifyContent" :> JustifyContentWords)

\* the resolved value of an attribute that has one value for all its targets
Resolved(a) ==
    LET e == a.expr IN
    CASE e.kind = "Lit" -> Value(IF a.tag = "LineBreak" THEN <<"Some">> \o e.v ELSE e.v)
      [] a.tag = "BackgroundImage" -> Value(ImageOf(e))
      [] a.tag \in {"BackgroundColor", "BorderColor", "Color"} -> IntoColor(e)
      [] a.tag = "ZIndex" ->
            IF IntoI32(e).ok THEN Value(<<"Some">> \o IntoI32(e).v) ELSE NoValue
      [] a.tag = "Display" -> IntoDisplay(e)
      [] a.tag \in DOMAIN WordsOf -> IntoEnum(WordsOf[a.tag], e)
      [] a.tag \in {"FlexGrow", "FlexShrink"} -> IntoF32(e)
      [] a.tag \in RectTags -> [ok |-> IntoUiRect(e).ok, v |-> <<>>]
      [] OTHER -> IntoLength(e)

\* the attribute's expression evaluates successfully
Succeeds(a) == Resolved(a).ok

\* the value a successful attribute a has for its target field f
ValueAt(a, f) ==
    CASE a.tag \in RectTags ->
            LET side == CHOOSE s \in Sides : f = CompositeOf[a.tag] \o "." \o s IN
            IntoUiRect(a.expr)[side]
      [] a.tag \in {"GridRow", "GridColumn"} ->
            LET i == CHOOSE k \in 1..3 :
                        f = CompositeOf[a.tag] \o "." \o <<"start", "span", "end">>[k] IN
            <<a.expr.v[i]>>
      [] OTHER -> Resolved(a).v

\* the call the run observes: a merge of call.attrs into call.before that returned
Merged == call.op \in {"apply_to", "apply"} /\ ret.kind # "Panic"

\* one step of the observed merge, and the merge written from its last step backwards
One(a, c) == IF call.op = "apply_to" THEN ApplyAttr(a, c) ELSE StyleAttrApply(a, c)

RECURSIVE MergeOf(_, _)
MergeOf(attrs, c) ==
    IF attrs = <<>> THEN c
    ELSE One(attrs[Len(attrs)], MergeOf(SubSeq(attrs, 1, Len(attrs) - 1), c))

\* the last attribute of attrs that targets f and evaluates; 0 if there is none
LastWriter(attrs, f) ==
    LET W == {i \in 1..Len(attrs) : f \in TargetsOf(attrs[i].tag) /\ Succeeds(attrs[i])} IN
    IF W = {} THEN 0 ELSE CHOOSE i \in W : \A j \in W : j <= i

\* C1: after a merge every field holds the value of the last attribute of the
\* sequence that targets the field and evaluated, or its prior value if there is none.
\* The grid component attributes (C26) target a field and leave it as it was.
LastWriteWins ==
    Merged =>
        \A f \in Fields :
            LET i == LastWriter(call.attrs, f) IN
            computed[f] = IF i = 0 THEN call.before[f] ELSE ValueAt(call.attrs[i], f)

\* last-write-wins over the sequences that hold no grid component attribute
LastWriteWinsButGridParts ==
    (Merged /\ \A i \in 1..Len(call.attrs) : call.attrs[i].tag \notin GridPartTags)
        => LastWriteWins

\* C3: an attribute whose expression fails to evaluate changes nothing, and the
\* attributes after it are applied as if it were not in the sequence.
FailedAttrSkipped ==
    Merged =>
        \A i \in 1..Len(call.attrs) :
            ~Succeeds(call.attrs[i]) =>
                LET pre == MergeOf(SubSeq(call.attrs, 1, i - 1), call.before) IN
                /\ One(call.attrs[i], pre) = pre
                /\ computed = MergeOf(SubSeq(call.attrs, i + 1, Len(call.attrs)), pre)

\* a merge whose first attribute fails on a field that is not at its default, and
\* whose second attribute is applied
FailedAttrSkippedSeen ==
    /\ Merged /\ Len(call.attrs) = 2
    /\ ~Succeeds(call.attrs[1]) /\ Succeeds(call.attrs[2])
    /\ \E f \in TargetsOf(call.attrs[1].tag) : call.before[f] # DefaultStyle[f]
    /\ computed # call.before

\* the composite attributes of C4 and, for each, the attributes of one component
Composites == {"Overflow", "Gap", "Margin", "Padding", "Border"}

SpecificOf(tag) ==
    {t \in DOMAIN ScalarTarget : ScalarTarget[t] \in TargetsOf(tag)}

\* in attrs, nothing but i and j writes a component of the composite at i from
\* the first of the two on
AloneFrom(attrs, i, j) ==
    \A k \in 1..Len(attrs) :
        (k \notin {i, j} /\ (k > i \/ k > j))
            => \/ TargetsOf(attrs[k].tag) \cap TargetsOf(attrs[i].tag) = {}
               \/ ~Succeeds(attrs[k])

\* C4: a specific attribute after its composite changes its one component and the
\* others stay as the composite set them; a composite after the specific attribute
\* sets every component.
CompositeThenSpecific ==
    Merged =>
        \A i, j \in 1..Len(call.attrs) :
            LET A == call.attrs[i]
                B == call.attrs[j]
            IN  (/\ A.tag \in Composites /\ B.tag \in SpecificOf(A.tag)
                 /\ Succeeds(A) /\ Succeeds(B) /\ AloneFrom(call.attrs, i, j))
                => \A f \in TargetsOf(A.tag) :
                      computed[f] = IF i < j /\ f = ScalarTarget[B.tag]
                                    THEN ValueAt(B, f)
                                    ELSE ValueAt(A, f)

\* a composite, then a specific attribute with another value, merged into a style
\* whose components held neither value
CompositeThenSpecificSeen ==
    /\ Merged /\ Len(call.attrs) = 2
    /\ call.attrs[1].tag \in Composites
    /\ call.attrs[2].tag \in SpecificOf(call.attrs[1].tag)
    /\ Succeeds(call.attrs[1]) /\ Succeeds(call.attrs[2])
    /\ \A f \in TargetsOf(call.attrs[1].tag) :
        /\ computed[f] # call.before[f]
        /\ (f = ScalarTarget[call.attrs[2].tag]) = (computed[f] # ValueAt(call.attrs[1], f))

\* two ComputedStyles that differ in every field, from every value a style can write
ProbeA == [f \in Fields |-> <<"probe", "a">>]

ProbeB == [f \in Fields |-> <<"probe", "b">>]

\* the fields attribute a overwrites whatever they held
Overwrites(a) == {f \in Fields : One(a, ProbeA)[f] = One(a, ProbeB)[f]}

\* C5: a merge leaves every field that none of its attributes targets as it was,
\* and [A, A'] with A' overriding one field of A is [A] with that one field overwritten.
FieldGranular ==
    Merged =>
        /\ \A f \in Fields :
            (\A i \in 1..Len(call.attrs) : f \notin TargetsOf(call.attrs[i].tag))
                => computed[f] = call.before[f]
        /\ Len(call.attrs) = 2 =>
            \A f \in TargetsOf(call.attrs[1].tag) :
                Overwrites(call.attrs[2]) = {f}
                    => computed = [One(call.attrs[1], call.before)
                                     EXCEPT ![f] = One(call.attrs[2], ProbeA)[f]]

\* [A, A'] merged into a style that is not the default in a field neither targets:
\* A sets several fields and A' overrides one of them with another value
FieldGranularSeen ==
    /\ Merged /\ Len(call.attrs) = 2
    /\ Cardinality(Overwrites(call.attrs[1])) > 1
    /\ \E f \in Overwrites(call.attrs[1]) :
        /\ Overwrites(call.attrs[2]) = {f}
        /\ computed[f] # One(call.attrs[1], call.before)[f]
    /\ \E g \in Fields :
        /\ g \notin TargetsOf(call.attrs[1].tag) \cup TargetsOf(call.attrs[2].tag)
        /\ call.before[g] # DefaultStyle[g]

(***************************************************************************)
(* The controller's precedence.                                            *)
(***************************************************************************)
\* what stylesheet or inline style s sets: for each field that ends the same in
\* whatever style s is merged into, that value, and <<>> for every other field
Unset == <<>>

Effect(s) ==
    LET a == StyleAssetApplyTo(s, ProbeA).computed
        b == StyleAssetApplyTo(s, ProbeB).computed
    IN  [f \in Fields |-> IF a[f] = b[f] THEN a[f] ELSE Unset]

NoEffect == [f \in Fields |-> Unset]

\* the effects of the view's stylesheets, in the listed order; none if not available
SheetEffects(view) ==
    [i \in 1..Len(view.styleset_handles) |->
        IF assets[view.styleset_handles[i]] = NotLoaded THEN NoEffect
        ELSE Effect(assets[view.styleset_handles[i]])]

InlineEffect(view) ==
    IF view.inline_style = <<>> THEN NoEffect ELSE Effect(view.inline_style[1])

\* an update_styles call that returned
Updated == call.op = "update_styles" /\ ret.kind # "Panic"

\* C2: a field the inline style sets holds the inline style's value; a field that
\* only stylesheets set holds the value of the last-listed stylesheet that sets it.
InlineThenLaterSheetWins ==
    Updated =>
        LET inline == InlineEffect(call.view)
            sheets == SheetEffects(call.view)
        IN  \A f \in Fields :
                LET S == {i \in 1..Len(sheets) : sheets[i][f] # Unset} IN
                /\ inline[f] # Unset => computed[f] = inline[f]
                /\ (inline[f] = Unset /\ S # {})
                    => computed[f] = sheets[CHOOSE i \in S : \A j \in S : j <= i][f]

\* two listed stylesheets and the inline style: on one field the inline style
\* overrides the stylesheets, on another the later stylesheet overrides the earlier
InlineThenLaterSheetWinsSeen ==
    /\ Updated
    /\ LET inline == InlineEffect(call.view)
           sheets == SheetEffects(call.view)
       IN  /\ \E f \in Fields, i \in 1..Len(sheets) :
                /\ inline[f] # Unset
                /\ sheets[i][f] \notin {Unset, inline[f]}
           /\ \E g \in Fields, i, j \in 1..Len(sheets) :
                /\ inline[g] = Unset /\ i < j
                /\ sheets[i][g] \notin {Unset, computed[g]}
                /\ sheets[j][g] = computed[g]

(***************************************************************************)
(* from_ast.                                                               *)
(***************************************************************************)
\* from_ast was called on call.listing; ret and loads are what it answered
Loaded == call.op \in {"from_ast", "apply_built"}

Recognized(key) == key = "background_image" \/ KeyTag(key) # ""

\* C6: the attributes from_ast builds are in the order the mapping lists its
\* properties, and merging them gives the ComputedStyle of the listing order.
ListingOrderKept ==
    (Loaded /\ ret.kind = "Ok") =>
        /\ Len(ret.attrs) = Len(call.listing)
        /\ \A i \in 1..Len(call.listing) :
            ret.attrs[i] = FromAstEntry(call.listing[i][1], call.listing[i][2]).attr
        /\ call.op = "apply_built" =>
            computed = ApplyTo(FromAst(call.listing).attrs, DefaultStyle)

\* C7: a mapping with a key outside the schema is answered by an error naming
\* such a key, and no style.
UnknownKeyRejected ==
    LET unknown == {k \in {call.listing[i][1] : i \in 1..Len(call.listing)} :
                        ~Recognized(k)} IN
    (Loaded /\ unknown # {}) =>
        /\ ret.kind = "Err"
        /\ ret.key \in unknown
        /\ ret.attrs = <<>>

\* C8: background_image with an asset path builds BackgroundImage(Some(handle))
\* after one load request for the path, with null or none BackgroundImage(None),
\* and with any other value from_ast returns an error.
BackgroundImageHandled ==
    Loaded =>
        \A i \in 1..Len(call.listing) :
            LET value == call.listing[i][2]
                built == {ret.attrs[j] : j \in 1..Len(ret.attrs)}
                images == {a \in built : a.tag = "BackgroundImage"}
            IN  call.listing[i][1] = "background_image" =>
                    CASE value.kind = "AssetPath" ->
                            /\ ret.kind \in {"Ok", "Err"}
                            /\ ret.kind = "Ok" =>
                                /\ images = {Attr("BackgroundImage", HandleOf(value.v[1]))}
                                /\ loads = <<value.v[1]>>
                      [] value = Null \/ value = Ident("none") ->
                            /\ ret.kind \in {"Ok", "Err"}
                            /\ ret.kind = "Ok" =>
                                /\ images = {Attr("BackgroundImage", NoHandle)}
                                /\ loads = <<>>
                      [] OTHER -> ret.kind = "Err"

\* C9: a mapping of recognized keys other than background_image always builds a
\* style, one attribute per property holding the property's expression as it was
\* given; an expression of the wrong type is skipped when the style is merged.
DeferredValidation ==
    (Loaded /\ \A i \in 1..Len(call.listing) : KeyTag(call.listing[i][1]) # "") =>
        /\ ret.kind = "Ok"
        /\ loads = <<>>
        /\ Len(ret.attrs) = Len(call.listing)
        /\ \A i \in 1..Len(call.listing) :
            \E j \in 1..Len(ret.attrs) :
                ret.attrs[j] = Attr(KeyTag(call.listing[i][1]), call.listing[i][2])
        /\ call.op = "apply_built" =>
            computed = ApplyAttrsTo(SelectSeq(ret.attrs, Succeeds), DefaultStyle)

\* a style built from a value of the wrong type and a value of the right type, merged:
\* the first attribute's field is left at its default, the second's is written
DeferredValidationSeen ==
    /\ call.op = "apply_built"
    /\ Len(call.listing) = 2
    /\ \A i \in 1..2 : KeyTag(call.listing[i][1]) # ""
    /\ \E i, j \in 1..2 :
        /\ ~Succeeds(ret.attrs[i]) /\ Succeeds(ret.attrs[j])
        /\ TargetsOf(ret.attrs[i].tag) \cap TargetsOf(ret.attrs[j].tag) = {}
        /\ \A f \in TargetsOf(ret.attrs[i].tag) : computed[f] = DefaultStyle[f]
        /\ \E f \in TargetsOf(ret.attrs[j].tag) : computed[f] # DefaultStyle[f]

(***************************************************************************)
(* parse_val.                                                              *)
(***************************************************************************)
\* C10: parse_val answers a Val or an InvalidAttributeValue carrying its input, and
\* never panics; a numeric part that is not a number is an error, unit or no unit.
ParseValNeverPanics ==
    call.op = "parse_val" =>
        /\ ret.kind \in {"Ok", "Err"}
        /\ ret.kind = "Err" => ret = InvalidAttributeValue(call.str)
        /\ (Captures(call.str).matched /\ ~F32FromStr(Captures(call.str).num).ok)
            => ret.kind = "Err"

\* what the documentation says a length string is: a decimal number, then nothing
\* or a unit
UnitVariant ==
    (<<"p", "x">> :> "Px") @@ (<<"%">> :> "Percent") @@ (<<"v", "w">> :> "Vw")
    @@ (<<"v", "h">> :> "Vh") @@ (<<"v", "m", "i", "n">> :> "VMin")
    @@ (<<"v", "m", "a", "x">> :> "VMax")

DigitValue == ("0" :> 0) @@ ("1" :> 1) @@ ("5" :> 5)

Unsigned(s) == IF s # <<>> /\ s[1] = "-" THEN Tail(s) ELSE s

\* s is a decimal number: an optional minus, digits with at most one point among
\* them, and a digit at least
IsNumber(s) ==
    LET body == Unsigned(s) IN
    /\ \A i \in 1..Len(body) : body[i] \in DOMAIN DigitValue \cup {"."}
    /\ Cardinality({i \in 1..Len(body) : body[i] = "."}) <= 1
    /\ \E i \in 1..Len(body) : body[i] \in DOMAIN DigitValue

RECURSIVE IntOf(_)
IntOf(ds) ==
    IF ds = <<>> THEN 0
    ELSE 10 * IntOf(SubSeq(ds, 1, Len(ds) - 1)) + DigitValue[ds[Len(ds)]]

RECURSIVE Pow10(_)
Pow10(k) == IF k = 0 THEN 1 ELSE 10 * Pow10(k - 1)

\* the digits of the number s without its point, and how many follow the point
Mantissa(s) == IntOf(SelectSeq(Unsigned(s), LAMBDA ch : ch # "."))

Scale(s) ==
    LET body == Unsigned(s)
        points == {i \in 1..Len(body) : body[i] = "."}
    IN  IF points = {} THEN 0 ELSE Len(body) - (CHOOSE i \in points : TRUE)

\* the Val r carries the number written as s
SameNumber(r, s) ==
    /\ IntOf(r.whole \o r.frac) * Pow10(Scale(s)) = Mantissa(s) * Pow10(Len(r.frac))
    /\ r.neg = (s[1] = "-" /\ Mantissa(s) # 0)

\* C11: parse_val answers Auto for "auto", and for a number followed by nothing or a
\* unit the Val of that unit (Px for none) carrying that number, sign included.
LengthParsed ==
    call.op = "parse_val" =>
        /\ call.str = AutoString => ret = [kind |-> "Ok", variant |-> "Auto"]
        /\ \A k \in 1..Len(call.str) :
            LET num == SubSeq(call.str, 1, k)
                unit == SubSeq(call.str, k + 1, Len(call.str))
            IN  (IsNumber(num) /\ unit \in DOMAIN UnitVariant \cup {<<>>}) =>
                    /\ ret.kind = "Ok"
                    /\ ret.variant = IF unit = <<>> THEN "Px" ELSE UnitVariant[unit]
                    /\ SameNumber(ret, num)

\* a negative fraction with a unit other than px was parsed
LengthParsedSeen ==
    /\ call.op = "parse_val"
    /\ ret.kind = "Ok" /\ ret.variant = "Percent"
    /\ ret.neg /\ ret.frac # <<>>
    /\ call.str[1] = "-"

\* a valid length string: "auto", or a number followed by nothing or by a unit
IsLength(tok) ==
    \/ tok = AutoString
    \/ \E k \in 1..Len(tok) :
        /\ IsNumber(SubSeq(tok, 1, k))
        /\ SubSeq(tok, k + 1, Len(tok)) \in DOMAIN UnitVariant \cup {<<>>}

\* the token a side takes under the CSS shorthand of n tokens
SideToken ==
    [side \in {"top", "right", "bottom", "left"} |->
        [n \in 1..4 |->
            CASE side = "top" -> 1
              [] side = "right" -> IF n >= 2 THEN 2 ELSE 1
              [] side = "bottom" -> IF n >= 3 THEN 3 ELSE 1
              [] side = "left" -> IF n = 4 THEN 4 ELSE IF n >= 2 THEN 2 ELSE 1]]

RectOf(tokens) ==
    [side \in {"top", "right", "bottom", "left"} |->
        ParseVal(tokens[SideToken[side][Len(tokens)]])]

\* C12: parse_uirect succeeds exactly when the string splits into one to four
\* whitespace-separated valid lengths, giving each side the length the CSS
\* shorthand assigns it; an empty string, more than four tokens or an invalid
\* token give an InvalidAttributeValue error.
UiRectParsed ==
    call.op = "parse_uirect" =>
        IF Len(call.tokens) \in 1..4 /\ \A i \in 1..Len(call.tokens) : IsLength(call.tokens[i])
        THEN /\ ret.kind = "Ok"
             /\ \A side \in {"top", "right", "bottom", "left"} :
                    ret[side] = RectOf(call.tokens)[side]
        ELSE /\ ret.kind = "Err"
             /\ ret.error = "InvalidAttributeValue"

\* the variant each enumerated attribute name stands for
VariantName ==
    ("position" :> "Position") @@ ("overflow" :> "Overflow")
    @@ ("overflow-x" :> "OverflowX") @@ ("overflow-y" :> "OverflowY")
    @@ ("direction" :> "Direction") @@ ("align-items" :> "AlignItems")
    @@ ("align-self" :> "AlignSelf") @@ ("align-content" :> "AlignContent")
    @@ ("justify-items" :> "JustifyItems") @@ ("justify-self" :> "JustifySelf")
    @@ ("justify-content" :> "JustifyContent") @@ ("flex-direction" :> "FlexDirection")
    @@ ("flex-wrap" :> "FlexWrap") @@ ("grid-auto-flow" :> "GridAutoFlow")
    @@ ("line-break" :> "LineBreak")

\* the fixed vocabulary of each enumerated attribute name
Vocabulary ==
    ("position" :> PositionTypeWords) @@ ("overflow" :> OverflowAxisWords)
    @@ ("overflow-x" :> OverflowAxisWords) @@ ("overflow-y" :> OverflowAxisWords)
    @@ ("direction" :> DirectionWords) @@ ("align-items" :> AlignItemsWords)
    @@ ("align-self" :> AlignSelfWords) @@ ("align-content" :> AlignContentWords)
    @@ ("justify-items" :> JustifyItemsWords) @@ ("justify-self" :> JustifySelfWords)
    @@ ("justify-content" :> JustifyContentWords)
    @@ ("flex-direction" :> FlexDirectionWords) @@ ("flex-wrap" :> FlexWrapWords)
    @@ ("grid-auto-flow" :> GridAutoFlowWords) @@ ("line-break" :> LineBreakWords)

\* C13: for an enumerated attribute name, parse returns the matching variant if
\* and only if the value is exactly one literal of the name's vocabulary; every
\* other value gives an UnknownAttributeValue error carrying the value, never
\* None and never a default variant.
EnumParsed ==
    (call.op = "parse" /\ call.name \in DOMAIN Vocabulary) =>
        IF call.value \in DOMAIN Vocabulary[call.name]
        THEN ret = [kind |-> "Ok", some |-> TRUE, tag |-> VariantName[call.name],
                    value |-> Vocabulary[call.name][call.value]]
        ELSE ret = [kind |-> "Err", error |-> "UnknownAttributeValue", str |-> call.value]

\* a literal of a sibling vocabulary is refused
EnumParsedSeen ==
    /\ call.op = "parse"
    /\ call.name = "justify-self"
    /\ call.value = "flex-start"
    /\ ret.kind = "Err"

\* the attribute names StyleAttr::parse has an arm for
RecognizedNames ==
    DOMAIN Vocabulary
    \cup {"flex-basis", "row-gap", "column-gap", "gap", "grid-row", "grid-row-start",
          "grid-row-span", "grid-row-end", "grid-column", "grid-column-start",
          "grid-column-span", "grid-column-end"}

\* C14: parse with a name that is not one of its recognized names returns
\* Ok(None) whatever the value is, never an error.
UnknownNameIsNone ==
    (call.op = "parse" /\ call.name \notin RecognizedNames) =>
        ret = [kind |-> "Ok", some |-> FALSE]

\* a value that no length parser accepts, under a name without an arm
UnknownNameIsNoneSeen ==
    /\ call.op = "parse"
    /\ call.name = "width"
    /\ call.value = <<"1", ".", "1", ".", "1">>
    /\ ret.kind = "Ok"
    /\ ~ret.some

\* an integer token of at most max: digits only
IsInteger(tok, max) ==
    /\ tok # <<>>
    /\ \A i \in 1..Len(tok) : tok[i] \in DOMAIN DigitValue
    /\ IntOf(tok) <= max

\* the ways a string reads as "<start>/<end>" (span FALSE) or
\* "<start>/span <count>" (span TRUE), spaces allowed around the parts
ReadAs(str, span) ==
    {<<a, b>> \in GridNumbers \X GridNumbers :
        \E s1 \in Gaps, s2 \in Gaps, s3 \in Gaps :
            str = a \o s1 \o <<"/">> \o s2 \o (IF span THEN SpanWord ELSE <<>>) \o s3 \o b}

\* C15: for grid-row and grid-column, parse accepts exactly "<start>/<end>" and
\* "<start>/span <count>" with integer tokens and produces a placement with that
\* start and end (or span); any other value, a token with a '.' or outside the
\* 16-bit range included, gives an InvalidAttributeValue error, never a panic.
GridPlacementParsed ==
    (call.op = "parse" /\ call.name \in {"grid-row", "grid-column"}) =>
        LET ends == {p \in ReadAs(call.value, FALSE) :
                        IsInteger(p[1], I16Max) /\ IsInteger(p[2], I16Max)}
            spans == {p \in ReadAs(call.value, TRUE) :
                        IsInteger(p[1], I16Max) /\ IsInteger(p[2], U16Max)}
        IN  /\ ret.kind # "Panic"
            /\ \A p \in ends :
                    /\ ret.kind = "Ok"
                    /\ ret.value.placement[1] = IntOf(p[1])
                    /\ ret.value.placement[3] = IntOf(p[2])
            /\ \A p \in spans :
                    /\ ret.kind = "Ok"
                    /\ ret.value.placement[1] = IntOf(p[1])
                    /\ ret.value.placement[2] = IntOf(p[2])
            /\ (ends = {} /\ spans = {}) =>
                    ret = [kind |-> "Err", error |-> "InvalidAttributeValue",
                           str |-> call.value]

\* the children of a cell, none for a leaf
ChildrenOf(cell) == IF "children" \in DOMAIN cell THEN cell.children ELSE <<>>

\* the nodes of the tree under a node, the node included
RECURSIVE Under(_, _)
Under(heap, node) ==
    {node} \cup UNION {Under(heap, ChildrenOf(heap[node])[i]) :
                            i \in 1..Len(ChildrenOf(heap[node]))}

\* the depth of a node under the root, 0 if it is not under it
RECURSIVE DepthOf(_, _, _)
DepthOf(heap, root, node) ==
    IF root = node THEN 1
    ELSE LET below == {DepthOf(heap, ChildrenOf(heap[root])[i], node) :
                            i \in 1..Len(ChildrenOf(heap[root]))} \ {0}
         IN  IF below = {} THEN 0 ELSE 1 + CHOOSE d \in below : TRUE

\* the path a reference written as str stands for when the document is at base
Anchored(base, str) ==
    LET h == HashAt(str) IN
    IF h = 1 THEN [path |-> base.path, label |-> SubSeq(str, 2, Len(str))]
    ELSE LET file == IF h = 0 THEN str ELSE SubSeq(str, 1, h - 1)
             label == IF h = 0 THEN <<>> ELSE SubSeq(str, h + 1, Len(str))
         IN  [path |-> IF file[1] = "/" THEN file
                       ELSE SubSeq(base.path, 1, Len(base.path) - 1) \o file,
              label |-> label]

\* C16: after visit_template_node every Element under the result has one handle
\* per styleset entry, in the same order, the i-th being the load of styleset[i]
\* resolved relative to base, and every Call has the load of its template name
\* resolved relative to base as template_handle, at any depth.
HandlesResolved ==
    call.op = "visit_template_node" =>
        \A n \in Under(ret.heap, ret.node) :
            LET cell == ret.heap[n] IN
            /\ cell.kind = "Element" =>
                    /\ Len(cell.styleset_handles) = Len(cell.styleset)
                    /\ \A i \in 1..Len(cell.styleset) :
                            /\ cell.styleset_handles[i].path = Anchored(call.base, cell.styleset[i])
                            /\ \E j \in 1..Len(loads) : loads[j] = cell.styleset_handles[i].path
            /\ cell.kind = "Call" =>
                    /\ cell.template_handle.path = Anchored(call.base, cell.template)
                    /\ \E j \in 1..Len(loads) : loads[j] = cell.template_handle.path

\* an Element with two stylesheets and a Call with a relative template name,
\* both two levels under the root
HandlesResolvedSeen ==
    /\ call.op = "visit_template_node"
    /\ \E n, m \in Under(ret.heap, ret.node) :
        /\ DepthOf(ret.heap, ret.node, n) = 3
        /\ DepthOf(ret.heap, ret.node, m) = 3
        /\ ret.heap[n].kind = "Element"
        /\ Len(ret.heap[n].styleset_handles) = 2
        /\ ret.heap[n].styleset_handles[1] # ret.heap[n].styleset_handles[2]
        /\ ret.heap[m].kind = "Call"
        /\ ret.heap[m].template[1] # "#"

\* the fields of a node that the pass has no reason to touch
Kept == {"kind", "text", "id", "controller", "attrs", "params", "styleset", "template"}

\* the output tree at b has the shape and the kept fields of the input tree at a
RECURSIVE SameShape(_, _, _, _)
SameShape(before, a, after, b) ==
    LET old == before[a]
        new == after[b]
    IN  /\ DOMAIN new = DOMAIN old
        /\ \A f \in DOMAIN old \cap Kept : new[f] = old[f]
        /\ Len(ChildrenOf(new)) = Len(ChildrenOf(old))
        /\ \A i \in 1..Len(ChildrenOf(old)) :
                SameShape(before, ChildrenOf(old)[i], after, ChildrenOf(new)[i])
        /\ IF old.kind = "Text" THEN b = a ELSE b \notin DOMAIN before

\* C17: the pass preserves the shape of the tree: same node kinds, same number
\* and order of children at every container, unchanged id, controller, attrs,
\* params, styleset and template names; a Text leaf of the output is the very
\* node of the input, an Element, Fragment or Call node is newly built.
ShapePreserved ==
    call.op = "visit_template_node" => SameShape(call.heap, call.node, ret.heap, ret.node)

\* a container whose children are a Text leaf and a container with a Text leaf
ShapePreservedSeen ==
    /\ call.op = "visit_template_node"
    /\ Len(ChildrenOf(ret.heap[ret.node])) = 2
    /\ LET kids == ChildrenOf(ret.heap[ret.node]) IN
        /\ ret.heap[kids[1]].kind = "Text"
        /\ kids[1] \in DOMAIN call.heap
        /\ ret.heap[kids[2]].kind = "Element"
        /\ \E i \in 1..Len(ChildrenOf(ret.heap[kids[2]])) :
                ret.heap[ChildrenOf(ret.heap[kids[2]])[i]].kind = "Text"

\* the inline styles of the nodes under a node
InlineStylesUnder(heap, node) ==
    {heap[n].inline_style : n \in {m \in Under(heap, node) :
        "inline_style" \in DOMAIN heap[m] /\ heap[m].inline_style # NoStyle}}

\* C18: visit_template_node never changes its input: every node of the input
\* tree and every inline style it refers to is after the pass what it was
\* before, and each inline style of the output is a resolved copy in a cell of
\* its own.
InputUnchanged ==
    call.op = "visit_template_node" =>
        /\ \A a \in DOMAIN call.heap : ret.heap[a] = call.heap[a]
        /\ \A n \in Under(call.heap, call.node) : n \in Under(ret.heap, call.node)
        /\ InlineStylesUnder(ret.heap, ret.node) \cap DOMAIN call.heap = {}

\* an inline style of the input whose copy in the output resolved differently
InputUnchangedSeen ==
    /\ call.op = "visit_template_node"
    /\ \E a \in InlineStylesUnder(call.heap, call.node),
          b \in InlineStylesUnder(ret.heap, ret.node) :
        /\ ret.heap[a] = call.heap[a]
        /\ ret.heap[b] # call.heap[a]
        /\ ret.heap[b].attrs[2].image.path = call.heap[a].attrs[2].image.path

\* C19: resolving an AssetRef is idempotent: resolve_asset_path(base) called
\* twice leaves the resolved path that calling it once leaves, and no call
\* changes the original path string.
ResolveIdempotent ==
    call.op = "resolve_asset_path" =>
        /\ ret.path = call.path
        /\ ret.path = call.before.path
        /\ (Len(call.bases) >= 2 /\ call.bases[Len(call.bases)] = call.bases[Len(call.bases) - 1])
                => ret.resolved = call.before.resolved

\* a relative path resolved twice against the base that moved it
ResolveIdempotentSeen ==
    /\ call.op = "resolve_asset_path"
    /\ Len(call.bases) = 2
    /\ call.bases[1] = call.bases[2]
    /\ Len(call.bases[1].path) = 2
    /\ call.path = <<"img", "a.png">>
    /\ ret.resolved.path # call.path

\* C20: when the bytes of the document do not decode, load returns an error
\* (an Err result, not an abort) and no labeled style or template asset has
\* been published for the document.
DecodeFailureIsError ==
    (call.op = "load" /\ call.reader.kind = "Bytes" /\ ~call.reader.valid) =>
        /\ ret.kind = "Err"
        /\ assets = <<>>

\* the entries of a map of the document, as labels
LabelsOf(kind, entries) == {<<kind, entries[i][1]>> : i \in 1..Len(entries)}

\* the entry of the document a label stands for
EntryAt(entries, label) ==
    entries[CHOOSE i \in 1..Len(entries) : entries[i][1] = label[2]][2]

\* a style asset is the style sa with every asset reference anchored to base
StyleResolved(asset, sa, base) ==
    /\ Len(asset.attrs) = Len(sa.attrs)
    /\ \A i \in 1..Len(sa.attrs) :
            IF "image" \in DOMAIN sa.attrs[i]
            THEN /\ asset.attrs[i].image.path = sa.attrs[i].image.path
                 /\ asset.attrs[i].image.resolved = Anchored(base, sa.attrs[i].image.path)
            ELSE asset.attrs[i] = sa.attrs[i]

\* a template asset holds the content tree with every handle anchored to base
TemplateResolved(asset, content, base) ==
    IF content = <<>> THEN asset.content = 0
    ELSE /\ asset.heap[asset.content].kind = content[1].kind
         /\ \A n \in Under(asset.heap, asset.content) :
                LET cell == asset.heap[n] IN
                /\ cell.kind = "Element" =>
                        /\ Len(cell.styleset_handles) = Len(cell.styleset)
                        /\ \A i \in 1..Len(cell.styleset) :
                                cell.styleset_handles[i].path = Anchored(base, cell.styleset[i])
                /\ cell.kind = "Call" =>
                        cell.template_handle.path = Anchored(base, cell.template)
                /\ ("inline_style" \in DOMAIN cell /\ cell.inline_style # NoStyle) =>
                        \A i \in 1..Len(asset.heap[cell.inline_style].attrs) :
                            LET attr == asset.heap[cell.inline_style].attrs[i] IN
                            "image" \in DOMAIN attr =>
                                attr.image.resolved = Anchored(base, attr.image.path)

\* C21: a successful load publishes exactly one labeled asset per entry of the
\* document, a style under "styles/<name>" and a template under
\* "templates/<name>", each resolved against the base made of the document path
\* and that label; no other label is published.
OneLabelPerEntry ==
    (call.op = "load" /\ ret.kind = "Ok") =>
        /\ Len(assets) = Len(call.reader.styles) + Len(call.reader.templates)
        /\ {assets[i].label : i \in 1..Len(assets)}
                = LabelsOf("styles", call.reader.styles)
                  \cup LabelsOf("templates", call.reader.templates)
        /\ \A i \in 1..Len(assets) :
                LET label == assets[i].label
                    base == [path |-> DocPath, label |-> label]
                IN  IF label[1] = "styles"
                    THEN StyleResolved(assets[i].asset,
                                       EntryAt(call.reader.styles, label), base)
                    ELSE TemplateResolved(assets[i].asset,
                                          EntryAt(call.reader.templates, label), base)

\* two styles and two templates, one with an inline style that has an image
OneLabelPerEntrySeen ==
    /\ call.op = "load"
    /\ ret.kind = "Ok"
    /\ Len(assets) = 4
    /\ \E i \in 1..Len(assets) :
        /\ assets[i].label[1] = "styles"
        /\ \E j \in 1..Len(assets[i].asset.attrs) : "image" \in DOMAIN assets[i].asset.attrs[j]
    /\ \E i \in 1..Len(assets) :
        /\ assets[i].label = <<"templates", "t2">>
        /\ assets[i].asset.content # 0
        /\ assets[i].asset.heap[assets[i].asset.content].kind = "Call"
        /\ assets[i].asset.heap[assets[i].asset.content].inline_style # NoStyle

\* the variants StyleAttr::parse can return, GridRow and GridColumn left out
RoundTripTags ==
    ({EnumArms[n].tag : n \in DOMAIN EnumArms}
     \cup {ValArms[n] : n \in DOMAIN ValArms}
     \cup {I16Arms[n] : n \in DOMAIN I16Arms}
     \cup {U16Arms[n] : n \in DOMAIN U16Arms})
    \ {"GridRow", "GridColumn"}

\* C22: for every attribute a that StyleAttr::parse returns, GridRow and GridColumn
\* apart, write_xml(a) appends exactly one (name, value) attribute to the element,
\* and StyleAttr::parse(name, value) returns Ok(Some(a)) again.
RoundTrip ==
    /\ (call.op = "write_xml" /\ call.attr.tag \in RoundTripTags)
        => /\ ret.kind = "Ok"
           /\ Len(ret.elem) = Len(call.elem) + 1
           /\ SubSeq(ret.elem, 1, Len(call.elem)) = call.elem
    /\ (call.op = "reparse" /\ call.attr.tag \in RoundTripTags)
        => ret = OkSome(call.attr.tag, call.attr.value)

\* the round trip of every attribute whose number is finite
FiniteRoundTrip ==
    (call.op = "reparse" /\ call.attr.tag \in RoundTripTags
     /\ ~(call.attr.tag \in DOMAIN ValWritten /\ call.attr.value.variant # "Auto"
          /\ call.attr.value.whole = Infinity))
        => ret = OkSome(call.attr.tag, call.attr.value)

\* a finite length, an enumeration and an integer have made the round trip
FiniteRoundTripSeen ==
    /\ call.op = "reparse"
    /\ ret.kind = "Ok"
    /\ call.attr.tag = "FlexBasis"
    /\ call.attr.value.variant = "Px"
    /\ call.attr.value.frac # <<>>

\* the variants write_xml has a string form for
StringForms == DOMAIN EnumWritten \cup DOMAIN ValWritten \cup DOMAIN IntWritten

\* C23: write_xml on a variant without a string form (GridRow, GridColumn and every
\* variant that holds an expression, such as BackgroundColor, Left, Width, Margin,
\* FlexGrow) aborts, and the element has no attribute more than before the call.
NoStringFormAborts ==
    (call.op = "write_xml" /\ call.attr.tag \notin StringForms)
        => /\ ret.kind = "Panic"
           /\ ret.elem = call.elem

\* a grid placement that parse returned has been written to an element that had an
\* attribute
NoStringFormAbortsSeen ==
    /\ call.op = "write_xml"
    /\ call.attr.tag = "GridRow"
    /\ call.elem # <<>>
    /\ ret.kind = "Panic"

\* a variant that holds an expression has been written
ExprBackedWritten ==
    /\ call.op = "write_xml"
    /\ call.attr.tag \in {"BackgroundColor", "Left", "Width", "Margin", "FlexGrow"}
    /\ ret.kind = "Panic"

\* C24: the shorthand flex property is accepted by the parser of the structured
\* form: a mapping whose one key is flex builds a style with an attribute, which
\* applied writes flex_grow, flex_shrink and flex_basis.
FlexShorthandAccepted ==
    (Loaded /\ Len(call.listing) = 1 /\ call.listing[1][1] = "flex")
        => /\ ret.kind = "Ok"
           /\ ret.attrs # <<>>

\* C25: an update_styles call that returns has added exactly one UpdateComputedStyle
\* command, and the style it carries is the merge of the view's available
\* stylesheets and inline style into an all-default ComputedStyle, whatever
\* ComputedStyle an earlier update left on the entity.
FreshEachUpdate ==
    Updated =>
        /\ Len(ret.commands) = 1
        /\ ret.commands[1].computed = computed
        /\ computed = ComputeStyle(DefaultStyle, call.view, assets).computed

\* an update after an earlier one: a field the earlier update had set, and this
\* update's styles do not set, is back at its default
FreshEachUpdateSeen ==
    /\ Updated
    /\ \E f \in Fields :
        /\ call.before[f] # DefaultStyle[f]
        /\ computed[f] = DefaultStyle[f]
    /\ \E f \in Fields : computed[f] # DefaultStyle[f]

\* the view with the handles of unavailable stylesheets taken off its list
RECURSIVE AvailableOf(_)
AvailableOf(handles) ==
    IF handles = <<>> THEN <<>>
    ELSE IF assets[Head(handles)] = NotLoaded THEN AvailableOf(Tail(handles))
    ELSE <<Head(handles)>> \o AvailableOf(Tail(handles))

WithoutUnavailable(view) ==
    [view EXCEPT !.styleset_handles = AvailableOf(view.styleset_handles)]

\* C27: a handle whose stylesheet is not available is skipped: the style computed
\* is the one computed for the same view with the unavailable handles taken off
\* the list, the other stylesheets and the inline style merged in order.
UnavailableSkipped ==
    Updated =>
        computed = ComputeStyle(DefaultStyle, WithoutUnavailable(call.view), assets).computed

\* the first listed stylesheet is not available, the second is and sets a field the
\* inline style leaves alone, and the inline style sets a field
UnavailableSkippedSeen ==
    /\ Updated
    /\ Len(call.view.styleset_handles) = 2
    /\ assets[call.view.styleset_handles[1]] = NotLoaded
    /\ assets[call.view.styleset_handles[2]] # NotLoaded
    /\ LET sheet == Effect(assets[call.view.styleset_handles[2]])
           inline == InlineEffect(call.view)
       IN  /\ \E f \in Fields :
                /\ sheet[f] # Unset /\ inline[f] = Unset
                /\ computed[f] = sheet[f] /\ computed[f] # DefaultStyle[f]
           /\ \E f \in Fields : inline[f] # Unset /\ computed[f] # DefaultStyle[f]

\* the component of computed.style.grid_row or grid_column a grid component
\* attribute names
GridComponent ==
    ("GridRowStart" :> "style.grid_row.start") @@ ("GridRowSpan" :> "style.grid_row.span")
    @@ ("GridRowEnd" :> "style.grid_row.end")
    @@ ("GridColumnStart" :> "style.grid_column.start")
    @@ ("GridColumnSpan" :> "style.grid_column.span")
    @@ ("GridColumnEnd" :> "style.grid_column.end")

\* C26: applying GridRowStart(n), GridRowSpan(n) or GridRowEnd(n), or the same of
\* the column, overwrites its component of the grid placement with n and leaves
\* every other field as it was.
GridPartOverwrites ==
    (Merged /\ call.op = "apply" /\ Len(call.attrs) = 1
     /\ call.attrs[1].tag \in GridPartTags)
        => \A f \in Fields :
            computed[f] = IF f = GridComponent[call.attrs[1].tag]
                          THEN <<call.attrs[1].expr.v[1]>>
                          ELSE call.before[f]

\* what the code does for them: every field is as it was
GridPartDiscarded ==
    (Merged /\ call.op = "apply" /\ Len(call.attrs) = 1
     /\ call.attrs[1].tag \in GridPartTags)
        => computed = call.before

\* the positions of the BackgroundImage attributes of a style
ImagesIn(attrs) == {i \in 1..Len(attrs) : attrs[i].tag = "BackgroundImage"}

\* C28: BackgroundImage always writes the image field: after ElementStyle::apply_to
\* the image is the one of the style's last BackgroundImage attribute, none for
\* BackgroundImage(None) and the handle for BackgroundImage(Some(handle)), and it is
\* the image from before if the style has no BackgroundImage attribute.
ImageAlwaysWritten ==
    (Merged /\ call.op = "apply_to") =>
        LET I == ImagesIn(call.attrs)
            last == call.attrs[CHOOSE i \in I : \A j \in I : j <= i].expr
        IN  computed["image"] =
                IF I = {} THEN call.before["image"]
                ELSE IF last = NoHandle THEN <<"None">>
                ELSE <<"Some", last.v[1]>>

\* a style with BackgroundImage(None) has been merged into a ComputedStyle that had
\* an image, and the image is none
ImageAlwaysWrittenSeen ==
    /\ Merged /\ call.op = "apply_to"
    /\ \E i \in ImagesIn(call.attrs) : call.attrs[i].expr = NoHandle
    /\ call.before["image"][1] = "Some"
    /\ computed["image"] = <<"None">>

\* a style with BackgroundImage(Some(handle)) has been merged into a ComputedStyle
\* that had another image
ImageReplacedSeen ==
    /\ Merged /\ call.op = "apply_to"
    /\ call.before["image"] = <<"Some", "a.png">>
    /\ computed["image"] = <<"Some", "b.png">>

\* the variants of StyleAttr that hold a resolved value, not an expression
LiteralTags == DOMAIN WordsOf \cup {"FlexBasis", "RowGap", "ColumnGap", "Gap"}

\* the StyleAttr of the same property and the same resolved value
StyleAttrOf(a) == IF a.tag \in LiteralTags THEN Attr(a.tag, Lit(Resolved(a).v)) ELSE a

\* the observed merge is of one ElementStyleAttr whose property StyleAttr has too,
\* and whose expression evaluates
SharedApplied ==
    /\ Merged /\ call.op = "apply_to"
    /\ Len(call.attrs) = 1
    /\ call.attrs[1].tag # "BackgroundImage"
    /\ Succeeds(call.attrs[1])

\* C29: for a property that both StyleAttr and ElementStyleAttr have, applying the
\* ElementStyleAttr gives the ComputedStyle that applying the StyleAttr of the same
\* resolved value gives: the same fields written with the same values, the
\* composites Overflow, Gap, Margin, Padding and Border included.
ModelsAgree ==
    SharedApplied =>
        computed = StyleAttrApply(StyleAttrOf(call.attrs[1]), call.before)

\* a composite has been applied and has changed more than one field
ModelsAgreeSeen ==
    /\ SharedApplied
    /\ call.attrs[1].tag \in {"Overflow", "Gap"}
    /\ Cardinality({f \in Fields : computed[f] # call.before[f]}) = 2

\* a rect composite has been applied and has changed its four sides
RectAgreeSeen ==
    /\ SharedApplied
    /\ call.attrs[1].tag \in RectTags
    /\ Cardinality({f \in Fields : computed[f] # call.before[f]}) = 4

\* a style has been applied a second time, and the call returned
AppliedAgain == call.op \in {"apply_to_again", "apply_again"} /\ ret.kind # "Panic"

\* C30: applying a style twice gives the ComputedStyle that applying it once gives,
\* for ElementStyle::apply_to and for StyleAttr::apply over the sequence.
ApplyIdempotent == AppliedAgain => computed = call.once

\* an ElementStyle of two attributes, one of them of two fields, has been applied
\* twice, and the first time changed the ComputedStyle
ApplyIdempotentSeen ==
    /\ call.op = "apply_to_again"
    /\ Len(call.attrs) = 2
    /\ \E i \in 1..2 : call.attrs[i].tag \in {"Overflow", "Gap"} /\ Succeeds(call.attrs[i])
    /\ call.once # DefaultStyle

\* a StyleAsset with a composite and a later side has been applied twice
LegacyIdempotentSeen ==
    /\ call.op = "apply_again" /\ ret.kind # "Panic"
    /\ Len(call.attrs) = 2
    /\ call.attrs[1].tag \in RectTags /\ Succeeds(call.attrs[1])
    /\ call.attrs[2].tag \notin RectTags /\ Succeeds(call.attrs[2])
    /\ call.once # DefaultStyle

================================================================================
